---- MODULE Spec2Model ----
(***************************************************************************)
(* City Finder: the enrichment orchestration of App (src/unnamed/part_003) *)
(* with the Gemini lookup gateway it imports and the browser's             *)
(* localStorage.  One action per handler / continuation of an async        *)
(* handler; React state updates of one synchronous step are applied in     *)
(* order inside the action, followed by the save effect.                   *)
(***************************************************************************)
EXTENDS Integers, Sequences, FiniteSets, TLC

(* ------------------------------ bounds -------------------------------- *)
\* rows the spreadsheet export yields
NumRows == 6
\* environment events (bulk run starts, user operations on the table, page reloads,
\* clock steps, lookups that do not come back with a city for every record asked for)
\* a behaviour may take
MaxEvents == 4
\* the same for the behaviours that study the rate-limit monitor, where the environment
\* only looks the city of the first record up, lets time pass and dismisses the warning
MaxRateEvents == 9
\* rows of core kinds a sheet has in the behaviours that study the importer and the
\* export formatter, and the edits and page reloads such a behaviour may take
MaxCsvRows == 3
MaxCsvEvents == 2
\* the events the user and the environment may take in the behaviours that study whether
\* a bulk run ends
MaxLiveEvents == 3
\* the characters a name or a company has in the behaviours that study the identity key
MaxFieldLen == 2

(* ------------------------- program constants -------------------------- *)
BATCH_SIZE == 5
RPM_DELAY == 10000
DAILY_LIMIT_GAP == 60000

(* ------------------------------ strings ------------------------------- *)
\* String.prototype.toLowerCase on the strings a lookup can return
ToLowerCase(s) ==
    CASE s = "Not Found" -> "not found"
      [] s = "NOT FOUND" -> "not found"
      [] s = "Paris" -> "paris"
      [] s = "Oslo" -> "oslo"
      [] s = "Invalid API Key" -> "invalid api key"
      [] s = "Rate Limit Exceeded" -> "rate limit exceeded"
      [] s = "API Error" -> "api error"
      [] s = "Error: Malformed Response" -> "error: malformed response"
      [] s = "Error: No result from AI" -> "error: no result from ai"
      [] OTHER -> s

\* String.prototype.trim on the city values an upstream response can carry
TrimCity(s) ==
    CASE s = " Paris " -> "Paris"
      [] s = "  " -> ""
      [] OTHER -> s

\* names are sequences of characters, so that case folding and trimming are computed
LowerChar(ch) ==
    CASE ch = "A" -> "a"
      [] ch = "B" -> "b"
      [] ch = "C" -> "c"
      [] OTHER -> ch

LowerSeq(s) == [k \in 1..Len(s) |-> LowerChar(s[k])]

RECURSIVE TrimLeft(_)
TrimLeft(s) == IF s # <<>> /\ Head(s) = " " THEN TrimLeft(Tail(s)) ELSE s

RECURSIVE TrimRight(_)
TrimRight(s) ==
    IF s # <<>> /\ s[Len(s)] = " " THEN TrimRight(SubSeq(s, 1, Len(s) - 1)) ELSE s

TrimSeq(s) == TrimRight(TrimLeft(s))

\* faulty variant: each of the three fields is trimmed on its own
getClientUniqueKey_PerField(client) ==
    LowerSeq(TrimSeq(client.firstName)) \o <<"|">> \o LowerSeq(TrimSeq(client.lastName))
        \o <<"|">> \o LowerSeq(TrimSeq(client.company))

\* `${firstName}|${lastName}|${company}`.toLowerCase().trim()
getClientUniqueKey(client) ==
    TrimSeq(LowerSeq(client.firstName \o <<"|">> \o client.lastName \o <<"|">> \o client.company))

(* --------------------------- the data source -------------------------- *)
FirstNames == <<<<"A">>, <<"b">>, <<"c">>, <<"d">>, <<"e">>, <<"a">>, <<"g">>, <<"h">>, <<"i">>>>

\* the records fetchClients resolves to: parseCSV's output for the sheet
\* (city '' and cityStatus 'idle' on every emitted row, id = row index)
SheetClient(n) ==
    [id |-> n, firstName |-> FirstNames[(n % Len(FirstNames)) + 1], lastName |-> <<"L">>,
     jobTitle |-> "Eng", company |-> <<"Co">>, city |-> "", cityStatus |-> "idle"]

SheetClients == [k \in 1..NumRows |-> SheetClient(k - 1)]

(* --------------------------- sequence helpers ------------------------- *)
Range(s) == {s[k] : k \in 1..Len(s)}

\* faulty variant: the slice takes the element at its upper bound too
Slice_Inclusive(s, from, to) ==
    LET hi == IF to + 1 < Len(s) THEN to + 1 ELSE Len(s)
    IN  IF from >= hi THEN <<>> ELSE SubSeq(s, from + 1, hi)

\* Array.prototype.slice(from, to) with 0-based bounds
Slice(s, from, to) ==
    LET hi == IF to < Len(s) THEN to ELSE Len(s)
    IN  IF from >= hi THEN <<>> ELSE SubSeq(s, from + 1, hi)

\* the array a map builds, as a tuple (its elements computed once)
Array(f) == SubSeq(f, 1, Len(f))

Ids(cl) == {cl[k].id : k \in 1..Len(cl)}

(* ------------------------------ the state ----------------------------- *)
VARIABLES
    apiKey,                 \* useState apiKey
    sheetId,                \* useState sheetId
    clients,                \* useState clients: the working set
    isLoading,              \* useState isLoading
    error,                  \* useState error
    isFindingAll,           \* useState isFindingAll
    rateLimitMessage,       \* useState rateLimitMessage
    showDailyLimitWarning,  \* useState showDailyLimitWarning
    rateLimitHistory,       \* useRef rateLimitHistory
    storage,                \* localStorage: the three keys
    now,                    \* Date.now()
    run,                    \* the suspended handleFindAllCities call, if any
    manual,                 \* the suspended handleFindCity calls
    loads,                  \* the suspended loadClients calls
    download,               \* the file the Download button wrote last
    stale,                  \* history: the lookups in flight that were sent before
                            \* the settings were reset
    hist,                   \* history: the last step, its inputs and the state before it
    budget                  \* the environment events the behaviour may still take

vars == <<apiKey, sheetId, clients, isLoading, error, isFindingAll, rateLimitMessage,
          showDailyLimitWarning, rateLimitHistory, storage, now, run, manual, loads,
          download, stale, hist, budget>>

NoMap == <<>>

\* nothing has been downloaded; besides the text of the file the record keeps, as history,
\* the working set the file was written from
NoDownload == [made |-> FALSE, text |-> <<>>, clients |-> <<>>]

\* no lookup is in flight: `run` is whether the bulk run in flight began before a call of
\* handleResetSettings discarded the working set it selected from, `manual` is the same
\* for each suspended manual lookup
NoneStale == [run |-> FALSE, manual |-> <<>>]

EmptyStorage == [apiKey |-> "", sheetId |-> "", clients |-> NoMap]

\* no handleFindAllCities call has been made; besides the locals of the call (pc, the
\* captured clientsToFind, i, the timer's due time) the record keeps, as history, when
\* each lookup of the run was issued, how many returned and how the run ended
IdleRun ==
    [pc |-> "idle", clientsToFind |-> <<>>, i |-> 0, due |-> 0, calls |-> <<>>,
     returns |-> 0, outcome |-> "none"]

\* the React state and localStorage a handler reads and writes, as one record
Cur ==
    [apiKey |-> apiKey, sheetId |-> sheetId, clients |-> clients, isLoading |-> isLoading,
     error |-> error, rateLimitMessage |-> rateLimitMessage,
     showDailyLimitWarning |-> showDailyLimitWarning,
     rateLimitHistory |-> rateLimitHistory, storage |-> storage]

isConfigured(S) == S.apiKey # "" /\ S.sheetId # ""

(* --------------------------- enrichment cache ------------------------- *)
\* faulty variant: only the records with status found are stored
DataToStore_FoundOnly(cl) ==
    LET keyOf == Array([k \in 1..Len(cl) |-> getClientUniqueKey(cl[k])])
        stored == {k \in 1..Len(cl) : cl[k].cityStatus = "found"}
        LastOf(key) ==
            CHOOSE k \in stored :
                keyOf[k] = key /\ \A j \in stored : keyOf[j] = key => j <= k
    IN  [key \in {keyOf[k] : k \in stored} |->
            [city |-> cl[LastOf(key)].city, cityStatus |-> cl[LastOf(key)].cityStatus]]

\* faulty variant: the first record with a key keeps its entry
DataToStore_FirstWins(cl) ==
    LET keyOf == Array([k \in 1..Len(cl) |-> getClientUniqueKey(cl[k])])
        stored == {k \in 1..Len(cl) : cl[k].cityStatus # "idle" \/ cl[k].city # ""}
        FirstOf(key) ==
            CHOOSE k \in stored :
                keyOf[k] = key /\ \A j \in stored : keyOf[j] = key => k <= j
    IN  [key \in {keyOf[k] : k \in stored} |->
            [city |-> cl[FirstOf(key)].city, cityStatus |-> cl[FirstOf(key)].cityStatus]]

\* the dataToStore object of the save effect: later records overwrite earlier ones
DataToStore(cl) ==
    LET keyOf == Array([k \in 1..Len(cl) |-> getClientUniqueKey(cl[k])])
        stored == {k \in 1..Len(cl) : cl[k].cityStatus # "idle" \/ cl[k].city # ""}
        LastOf(key) ==
            CHOOSE k \in stored :
                keyOf[k] = key /\ \A j \in stored : keyOf[j] = key => j <= k
    IN  [key \in {keyOf[k] : k \in stored} |->
            [city |-> cl[LastOf(key)].city, cityStatus |-> cl[LastOf(key)].cityStatus]]

\* useEffect(..., [clients, isLoading, isConfigured]): runs after a step that set one of them
SaveEffect(S) ==
    IF S.isLoading \/ Len(S.clients) = 0 \/ ~isConfigured(S)
    THEN S
    ELSE [S EXCEPT !.storage.clients = DataToStore(S.clients)]

\* faulty variant: the merge takes the city of the saved entry and forgets its status
MergeClients_CityOnly(fetched, savedData) ==
    Array([k \in 1..Len(fetched) |->
        LET key == getClientUniqueKey(fetched[k])
        IN  IF key \in DOMAIN savedData
            THEN [fetched[k] EXCEPT !.city = savedData[key].city]
            ELSE fetched[k]])

\* mergedClients of loadClients
MergeClients(fetched, savedData) ==
    Array([k \in 1..Len(fetched) |->
        LET key == getClientUniqueKey(fetched[k])
        IN  IF key \in DOMAIN savedData
            THEN [fetched[k] EXCEPT !.city = savedData[key].city,
                                    !.cityStatus = savedData[key].cityStatus]
            ELSE fetched[k]])

(* ---------------------------- lookup gateway -------------------------- *)
\* what the generateContent call can do: reject with a message, or resolve to a text
\* that holds no JSON array, one that does not parse, or an array of items
Rejected(message) == [kind |-> "rejected", message |-> message, items |-> <<>>]
NoArrayText == [kind |-> "no_array", message |-> "", items |-> <<>>]
BadJsonText == [kind |-> "bad_json", message |-> "", items |-> <<>>]
ArrayText(items) == [kind |-> "array", message |-> "", items |-> items]

\* faulty variant: a rate-limit rejection is taken for an invalid key
ErrorType_RateAsInvalid(message) ==
    IF message \in {"API key not valid", "permission_denied", "429", "RESOURCE_EXHAUSTED"}
    THEN "Invalid API Key"
    ELSE "API Error"

\* the catch block's classification of the error message
ErrorType(message) ==
    IF message \in {"API key not valid", "permission_denied"} THEN "Invalid API Key"
    ELSE IF message \in {"429", "RESOURCE_EXHAUSTED"} THEN "Rate Limit Exceeded"
    ELSE "API Error"

\* Map.prototype.set on an insertion-ordered map, kept as a sequence of entries
MapSet(m, id, v) ==
    IF \E k \in 1..Len(m) : m[k].id = id
    THEN [k \in 1..Len(m) |-> IF m[k].id = id THEN [id |-> id, v |-> v] ELSE m[k]]
    ELSE Append(m, [id |-> id, v |-> v])

MapHas(m, id) == \E k \in 1..Len(m) : m[k].id = id

MapGet(m, id) == m[CHOOSE k \in 1..Len(m) : m[k].id = id].v

AllTo(batch, v) == [k \in 1..Len(batch) |-> [id |-> batch[k].id, v |-> v]]

\* resultMap.set(item.id, item.city.trim() || "Not Found") for each item of the array
RECURSIVE SetItems(_, _)
SetItems(m, items) ==
    IF items = <<>> THEN m
    ELSE LET city == TrimCity(Head(items).city)
         IN  SetItems(MapSet(m, Head(items).id, IF city = "" THEN "Not Found" ELSE city),
                      Tail(items))

\* faulty variant: the closing loop is missing
FillMissing_Never(m, batch) == m

\* the closing loop: every client of the batch without an entry gets one
RECURSIVE FillMissing(_, _)
FillMissing(m, batch) ==
    IF batch = <<>> THEN m
    ELSE FillMissing(IF MapHas(m, Head(batch).id) THEN m
                     ELSE MapSet(m, Head(batch).id, "Error: No result from AI"),
                     Tail(batch))

\* findClientCitiesBatch(clients), given what the upstream call does
findClientCitiesBatch(batch, upstream) ==
    CASE batch = <<>> -> <<>>
      [] upstream.kind = "rejected" -> AllTo(batch, ErrorType(upstream.message))
      [] upstream.kind = "no_array" -> AllTo(batch, "Error: Malformed Response")
      [] upstream.kind = "bad_json" -> AllTo(batch, ErrorType("Unexpected token"))
      [] OTHER -> FillMissing(SetItems(<<>>, upstream.items), batch)

(* ----------------------- handlers on the state record ----------------- *)
\* handleResetSettings
handleResetSettings(S) ==
    [S EXCEPT !.storage = EmptyStorage, !.apiKey = "", !.sheetId = "", !.clients = <<>>,
              !.isLoading = FALSE, !.error = FALSE]

\* faulty variant: the comparison with 'not found' minds the letter case
StatusOfCity_CaseSensitive(foundCity) ==
    IF foundCity = "Not Found" THEN "not_found" ELSE "found"

\* the status the per-entry update of processApiResult gives a returned city
StatusOfCity(foundCity) ==
    IF ToLowerCase(foundCity) = "not found" THEN "not_found" ELSE "found"

\* faulty variant: an outcome that repeats the city a record has puts the record back
\* to idle
ApplyCity_RepeatResets(cl, id, foundCity) ==
    Array([k \in 1..Len(cl) |->
        IF cl[k].id = id
        THEN IF cl[k].city = foundCity
             THEN [cl[k] EXCEPT !.city = "", !.cityStatus = "idle"]
             ELSE [cl[k] EXCEPT !.city = foundCity, !.cityStatus = StatusOfCity(foundCity)]
        ELSE cl[k]])

\* the setClients call at the end of the loop body of processApiResult
ApplyCity(cl, id, foundCity) ==
    Array([k \in 1..Len(cl) |->
        IF cl[k].id = id
        THEN [cl[k] EXCEPT !.city = foundCity, !.cityStatus = StatusOfCity(foundCity)]
        ELSE cl[k]])

\* faulty variant: only the records whose own entry is the rate-limit text are marked
MarkRateLimited_OwnEntry(cl, resultMap) ==
    Array([k \in 1..Len(cl) |->
        IF MapHas(resultMap, cl[k].id) /\ MapGet(resultMap, cl[k].id) = "Rate Limit Exceeded"
        THEN [cl[k] EXCEPT !.cityStatus = "error", !.city = "Rate Limited"]
        ELSE cl[k]])

\* the setClients call of the 'Rate Limit Exceeded' branch
MarkRateLimited(cl, resultMap) ==
    Array([k \in 1..Len(cl) |->
        IF MapHas(resultMap, cl[k].id)
        THEN [cl[k] EXCEPT !.cityStatus = "error", !.city = "Rate Limited"]
        ELSE cl[k]])

\* faulty variant: a gap of exactly one minute counts
DailyLimitHit_AtLeast(history) ==
    /\ Len(history) >= 2
    /\ history[Len(history)] - history[Len(history) - 1] >= DAILY_LIMIT_GAP

\* faulty variant: the last error is compared with the oldest one of the history
DailyLimitHit_Oldest(history) ==
    /\ Len(history) >= 2
    /\ history[Len(history)] - history[1] > DAILY_LIMIT_GAP

\* the daily-limit test after the push onto rateLimitHistory
DailyLimitHit(history) ==
    /\ Len(history) >= 2
    /\ history[Len(history)] - history[Len(history) - 1] > DAILY_LIMIT_GAP

\* the first lines of processApiResult: a first value that is no recognized error string
\* clears the rate-limit history
ClearsHistory(resultMap) ==
    /\ resultMap # <<>>
    /\ resultMap[1].v # ""
    /\ resultMap[1].v \notin {"Invalid API Key", "Rate Limit Exceeded", "API Error"}

\* the for loop of processApiResult from entry k on; t is Date.now()
RECURSIVE ProcessEntries(_, _, _, _)
ProcessEntries(S, resultMap, k, t) ==
    IF k > Len(resultMap) THEN [status |-> "CONTINUE", S |-> S]
    ELSE IF resultMap[k].v = "Invalid API Key"
    THEN [status |-> "STOP",
          S |-> handleResetSettings(
                  [S EXCEPT !.rateLimitMessage = "invalid key"])]
    ELSE IF resultMap[k].v = "Rate Limit Exceeded"
    THEN LET history == Append(S.rateLimitHistory, t)
         IN  [status |-> "STOP",
              S |-> [S EXCEPT !.rateLimitMessage = "rate limit",
                              !.rateLimitHistory = history,
                              !.showDailyLimitWarning =
                                  IF DailyLimitHit(history) THEN TRUE ELSE @,
                              !.clients = MarkRateLimited(@, resultMap)]]
    ELSE ProcessEntries([S EXCEPT !.clients = ApplyCity(@, resultMap[k].id, resultMap[k].v)],
                        resultMap, k + 1, t)

\* processApiResult(resultMap)
processApiResult(S, resultMap, t) ==
    ProcessEntries(IF ClearsHistory(resultMap) THEN [S EXCEPT !.rateLimitHistory = <<>>] ELSE S,
                   resultMap, 1, t)

\* faulty variant: the filter forgets the records to retry
NeedsCity_OnlyEmpty(c) == c.city = ""

\* the filter of handleFindAllCities (and of clientsToFindCount)
NeedsCity(c) == c.city = "" \/ c.cityStatus = "error" \/ c.cityStatus = "not_found"

RECURSIVE ClientsToFind(_)
ClientsToFind(cl) ==
    IF cl = <<>> THEN <<>>
    ELSE IF NeedsCity(Head(cl)) THEN <<Head(cl)>> \o ClientsToFind(Tail(cl))
    ELSE ClientsToFind(Tail(cl))

\* faulty variant: only the records of the first batch are marked
MarkFinding_FirstBatch(cl, ids) ==
    Array([k \in 1..Len(cl) |->
        IF cl[k].id \in ids /\ Cardinality({j \in ids : j < cl[k].id}) < BATCH_SIZE
        THEN [cl[k] EXCEPT !.cityStatus = "finding"]
        ELSE cl[k]])

\* the setClients call that marks the selected records 'finding'
MarkFinding(cl, ids) ==
    Array([k \in 1..Len(cl) |->
        IF cl[k].id \in ids THEN [cl[k] EXCEPT !.cityStatus = "finding"] ELSE cl[k]])

\* faulty variant: the STOP branch overwrites the city a record has
StopCity_Overwrite(city) == "Not Processed"

\* the city the STOP branch of handleFindAllCities leaves: c.city || 'Not Processed'
StopCity(city) == IF city # "" THEN city ELSE "Not Processed"

\* faulty variant: the STOP branch puts the remaining records back to idle
MarkRemaining_Idle(cl, remainingClientIds) ==
    Array([k \in 1..Len(cl) |->
        IF cl[k].id \in remainingClientIds
        THEN [cl[k] EXCEPT !.cityStatus = "idle"]
        ELSE cl[k]])

\* the setClients call of the STOP branch of handleFindAllCities
MarkRemaining(cl, remainingClientIds) ==
    Array([k \in 1..Len(cl) |->
        IF cl[k].id \in remainingClientIds
        THEN [cl[k] EXCEPT !.cityStatus = "error", !.city = StopCity(cl[k].city)]
        ELSE cl[k]])

\* faulty variant: the pacing test is off by one
MoreBatches_OffByOne(i, n) == i + BATCH_SIZE <= n

\* the pacing test after a batch: i + BATCH_SIZE < clientsToFind.length
MoreBatches(i, n) == i + BATCH_SIZE < n

\* faulty variant: a manual edit always gives status found
ChangeCity_AlwaysFound(cl, id, city) ==
    Array([k \in 1..Len(cl) |->
        IF cl[k].id = id
        THEN [cl[k] EXCEPT !.city = city, !.cityStatus = "found"]
        ELSE cl[k]])

\* handleCityChange
ChangeCity(cl, id, city) ==
    Array([k \in 1..Len(cl) |->
        IF cl[k].id = id
        THEN [cl[k] EXCEPT !.city = city,
                           !.cityStatus = IF city # "" THEN "found" ELSE "idle"]
        ELSE cl[k]])

(* ----------------------- inputs of the environment -------------------- *)
\* the item the model returns for a record when all goes well
GoodItem(id) == [id |-> id, city |-> "Paris", jobTitle |-> "CTO"]

GoodItems(batch) == [k \in 1..Len(batch) |-> GoodItem(batch[k].id)]

\* city strings one item of a response may carry instead
OddCities == {"Not Found", "not found", "  ", "Rate Limit Exceeded", "Invalid API Key"}

RemoveAt(s, p) == [k \in 1..(Len(s) - 1) |-> IF k < p THEN s[k] ELSE s[k + 1]]

\* item lists: the good one; one whose first or last item is odd or missing; and the
\* good one and one that starts with a rate-limit text, each with one more item, for a
\* record that was not asked for
ItemLists(batch) ==
    LET good == GoodItems(batch)
        ends == {1, Len(batch)} \cap (1..Len(batch))
        odd == {[good EXCEPT ![p].city = c] : p \in ends, c \in OddCities}
        short == {RemoveAt(good, p) : p \in ends}
        others == (0..(NumRows - 1)) \ {batch[k].id : k \in 1..Len(batch)}
        other == IF others = {} THEN {} ELSE {CHOOSE id \in others : \A o \in others : id <= o}
        more == {good, [good EXCEPT ![1].city = "Rate Limit Exceeded"]}
    IN  {good} \cup odd \cup short
            \cup {Append(items, GoodItem(id)) : items \in more, id \in other}

Upstreams(batch) ==
    IF batch = <<>> THEN {NoArrayText} ELSE
    {Rejected(m) : m \in {"API key not valid", "429", "fetch failed"}}
        \cup {NoArrayText, BadJsonText}
        \cup {ArrayText(items) : items \in ItemLists(batch)}

EditCities == {"", "Oslo"}

\* the rows the user edits or looks up by hand: the first and the last
TouchedRows == {0, NumRows - 1}

SetupInputs == {[apiKey |-> "k1", sheetId |-> "s1"], [apiKey |-> "", sheetId |-> "s1"]}

\* a lookup that is not the good one counts as an environment event
Cost(batch, upstream) == IF upstream = ArrayText(GoodItems(batch)) THEN 0 ELSE 1

(* ------------------------------ history ------------------------------- *)
\* the last step: its name and inputs, the working set before it (pre) and the whole
\* state record before it (was)
Step(op, batch, upstream, resultMap, status) ==
    [op |-> op, pre |-> clients, was |-> Cur, batch |-> batch, upstream |-> upstream,
     resultMap |-> resultMap, status |-> status]

Plain(op) == Step(op, <<>>, NoArrayText, <<>>, "")

\* processApiResult calls handleResetSettings for this map: an 'Invalid API Key' entry
\* that no 'Rate Limit Exceeded' entry precedes
CallsReset(resultMap) ==
    \E k \in 1..Len(resultMap) :
        /\ resultMap[k].v = "Invalid API Key"
        /\ \A j \in 1..(k - 1) : resultMap[j].v # "Rate Limit Exceeded"

\* handleResetSettings has discarded the working set: every suspended manual lookup, and
\* the bulk run if one is in flight (running), was sent before the reset
AllStale(st, running) ==
    [run |-> running, manual |-> [k \in 1..Len(st.manual) |-> TRUE]]

\* the last step applied the outcome map of a lookup; `stale` is whether the lookup was
\* sent before a reset of the settings
Outcome(op, batch, upstream, resultMap, status, wasStale) ==
    [op |-> op, pre |-> clients, was |-> Cur, batch |-> batch, upstream |-> upstream,
     resultMap |-> resultMap, status |-> status, stale |-> wasStale]

(* ------------------------------ actions ------------------------------- *)
\* what the table and its buttons need to be on screen
TableShown == isConfigured(Cur) /\ ~isLoading /\ ~error

\* the state record becomes the state
Commit(S) ==
    /\ apiKey' = S.apiKey
    /\ sheetId' = S.sheetId
    /\ clients' = S.clients
    /\ isLoading' = S.isLoading
    /\ error' = S.error
    /\ rateLimitMessage' = S.rateLimitMessage
    /\ showDailyLimitWarning' = S.showDailyLimitWarning
    /\ rateLimitHistory' = S.rateLimitHistory
    /\ storage' = S.storage

FreshState(st) ==
    /\ storage = st
    /\ apiKey = st.apiKey
    /\ sheetId = st.sheetId
    /\ clients = <<>>
    /\ isLoading = (st.apiKey # "" /\ st.sheetId # "")
    /\ error = FALSE
    /\ isFindingAll = FALSE
    /\ rateLimitMessage = ""
    /\ showDailyLimitWarning = FALSE
    /\ rateLimitHistory = <<>>
    /\ run = IdleRun
    /\ manual = <<>>
    /\ loads = IF st.apiKey # "" /\ st.sheetId # "" THEN 1 ELSE 0

Init ==
    /\ \E st \in {EmptyStorage, [apiKey |-> "k1", sheetId |-> "s1", clients |-> NoMap]} :
          FreshState(st)
    /\ now = 0
    /\ download = NoDownload
    /\ stale = NoneStale
    /\ hist = Plain("init")
    /\ budget = MaxEvents

\* the page is loaded again: useState initializers, then the configuration effect
Reload ==
    /\ budget > 0
    /\ budget' = budget - 1
    /\ apiKey' = storage.apiKey
    /\ sheetId' = storage.sheetId
    /\ clients' = <<>>
    /\ isLoading' = (storage.apiKey # "" /\ storage.sheetId # "")
    /\ error' = FALSE
    /\ isFindingAll' = FALSE
    /\ rateLimitMessage' = ""
    /\ showDailyLimitWarning' = FALSE
    /\ rateLimitHistory' = <<>>
    /\ run' = IdleRun
    /\ manual' = <<>>
    /\ loads' = IF storage.apiKey # "" /\ storage.sheetId # "" THEN 1 ELSE 0
    /\ hist' = Plain("Reload")
    /\ stale' = NoneStale
    /\ UNCHANGED <<download, storage, now>>

\* handleSetupSubmit, then the configuration effect: initializeGemini and loadClients
SetupSubmit(data) ==
    /\ ~isConfigured(Cur)
    /\ IF data.apiKey # "" /\ data.sheetId # ""
       THEN /\ Commit([Cur EXCEPT !.storage.apiKey = data.apiKey,
                                  !.storage.sheetId = data.sheetId,
                                  !.apiKey = data.apiKey, !.sheetId = data.sheetId,
                                  !.isLoading = TRUE, !.error = FALSE])
            /\ loads' = loads + 1
       ELSE UNCHANGED <<apiKey, sheetId, clients, isLoading, error, rateLimitMessage,
                        showDailyLimitWarning, rateLimitHistory, storage, loads>>
    /\ hist' = Plain("SetupSubmit")
    /\ UNCHANGED <<stale, download, isFindingAll, now, run, manual, budget>>

\* the Reset Settings button
ResetSettings ==
    /\ TableShown
    /\ budget > 0
    /\ budget' = budget - 1
    /\ Commit(handleResetSettings(Cur))
    /\ hist' = Plain("ResetSettings")
    /\ stale' = AllStale(stale, run.pc # "idle")
    /\ UNCHANGED <<download, isFindingAll, now, run, manual, loads>>

\* loadClients after its await: the fetch resolved to the records fetched, or threw
LoadApply(ok, fetched) ==
    /\ loads > 0
    /\ loads' = loads - 1
    /\ IF ok
       THEN Commit(SaveEffect([Cur EXCEPT
                !.clients = MergeClients(fetched, storage.clients),
                !.isLoading = FALSE]))
       ELSE Commit(SaveEffect([Cur EXCEPT !.error = TRUE, !.isLoading = FALSE]))
    /\ UNCHANGED <<stale, download, isFindingAll, now, run, manual, budget>>

\* loadClients after its await, for the sheet whose records are SheetClients
LoadReturn(ok) ==
    /\ LoadApply(ok, SheetClients)
    /\ hist' = Plain(IF ok THEN "LoadOk" ELSE "LoadFailed")

\* the Retry Connection button: loadClients up to its await
RetryLoad ==
    /\ isConfigured(Cur) /\ ~isLoading /\ error
    /\ budget > 0
    /\ budget' = budget - 1
    /\ Commit([Cur EXCEPT !.isLoading = TRUE, !.error = FALSE])
    /\ loads' = loads + 1
    /\ hist' = Plain("RetryLoad")
    /\ UNCHANGED <<stale, download, isFindingAll, now, run, manual>>

\* the row of a record takes an edit or a lookup unless the record is in_progress (the
\* caller disallows operations on a record whose lookup is in flight)
RowEnabled(c) == c.cityStatus # "finding"

\* handleCityChange(id, city)
CityChange(id, city) ==
    /\ TableShown
    /\ \E k \in 1..Len(clients) : clients[k].id = id /\ RowEnabled(clients[k])
    /\ budget > 0
    /\ budget' = budget - 1
    /\ Commit(SaveEffect([Cur EXCEPT !.clients = ChangeCity(@, id, city)]))
    /\ hist' = Step("CityChange", <<id>>, NoArrayText, <<>>, city)
    /\ UNCHANGED <<stale, download, isFindingAll, now, run, manual, loads>>

IdsOf(batch) == [k \in 1..Len(batch) |-> batch[k].id]

\* handleFindCity(id) up to its await
FindCityStart(id) ==
    /\ TableShown
    /\ budget > 0
    /\ budget' = budget - 1
    /\ \E k \in 1..Len(clients) :
          /\ clients[k].id = id
          /\ \A j \in 1..(k - 1) : clients[j].id # id
          /\ RowEnabled(clients[k])
          /\ manual' = Append(manual, clients[k])
    /\ Commit(SaveEffect([Cur EXCEPT
            !.rateLimitMessage = "",
            !.clients = MarkFinding(@, {id})]))
    /\ hist' = Step("FindCityStart", <<id>>, NoArrayText, <<>>, "")
    /\ stale' = [stale EXCEPT !.manual = Append(@, FALSE)]
    /\ UNCHANGED <<download, isFindingAll, now, run, loads>>

\* handleFindCity after its await: processApiResult on the one-record batch's map;
\* upstreams is what the generateContent call may have done
FindCityReturnFrom(k, upstreams) ==
    /\ k \in 1..Len(manual)
    /\ \E upstream \in upstreams :
          LET batch == <<manual[k]>>
              resultMap == findClientCitiesBatch(batch, upstream)
              r == processApiResult(Cur, resultMap, now)
          IN  /\ budget >= Cost(batch, upstream)
              /\ budget' = budget - Cost(batch, upstream)
              /\ Commit(SaveEffect(r.S))
              /\ hist' = Outcome("FindCityReturn", IdsOf(batch), upstream, resultMap, r.status,
                                  stale.manual[k])
              /\ LET rest == [stale EXCEPT !.manual = RemoveAt(@, k)]
                 IN  stale' = IF CallsReset(resultMap) THEN AllStale(rest, run.pc # "idle")
                                                       ELSE rest
    /\ manual' = RemoveAt(manual, k)
    /\ UNCHANGED <<download, isFindingAll, now, run, loads>>

FindCityReturn(k) == FindCityReturnFrom(k, Upstreams(<<manual[k]>>))

\* handleFindAllCities up to its first await: select, mark, dispatch the first batch
FindAllStart ==
    /\ TableShown
    /\ ~isFindingAll
    /\ Len(ClientsToFind(clients)) > 0
    /\ budget > 0
    /\ budget' = budget - 1
    /\ LET clientsToFind == ClientsToFind(clients)
       IN  /\ Commit(SaveEffect([Cur EXCEPT
                   !.rateLimitMessage = "",
                   !.clients = MarkFinding(@, Range(IdsOf(clientsToFind)))]))
           /\ run' = [pc |-> "call", clientsToFind |-> clientsToFind, i |-> 0, due |-> 0,
                      calls |-> <<now>>, returns |-> 0, outcome |-> "running"]
           /\ hist' = Step("FindAllStart", IdsOf(clientsToFind), NoArrayText, <<>>, "")
    /\ isFindingAll' = TRUE
    /\ stale' = [stale EXCEPT !.run = FALSE]
    /\ UNCHANGED <<download, now, manual, loads>>

\* faulty variant: the early return is missing, the run flag is set and the message cleared
FindAllNothing_Starts ==
    /\ TableShown
    /\ Len(ClientsToFind(clients)) = 0
    /\ budget > 0
    /\ budget' = budget - 1
    /\ isFindingAll' = TRUE
    /\ rateLimitMessage' = ""
    /\ hist' = Plain("FindAllNothing")
    /\ UNCHANGED <<stale, download, apiKey, sheetId, clients, isLoading, error,
                   showDailyLimitWarning, rateLimitHistory, storage, now, run, manual, loads>>

\* handleFindAllCities when its filter selects nothing: the early return (the button is
\* disabled then, the handler makes the test itself)
FindAllNothing ==
    /\ TableShown
    /\ Len(ClientsToFind(clients)) = 0
    /\ budget > 0
    /\ budget' = budget - 1
    /\ hist' = Plain("FindAllNothing")
    /\ UNCHANGED <<stale, download, apiKey, sheetId, clients, isLoading, error, isFindingAll,
                   rateLimitMessage,
                   showDailyLimitWarning, rateLimitHistory, storage, now, run, manual, loads>>

\* the body of the loop of handleFindAllCities after the await, for the batch that starts
\* at i: processApiResult, and on STOP the marking of the records from i on
ApplyBatch(S, clientsToFind, i, upstream, t) ==
    LET batch == Slice(clientsToFind, i, i + BATCH_SIZE)
        r == processApiResult(S, findClientCitiesBatch(batch, upstream), t)
        remainingClientIds == Range(IdsOf(Slice(clientsToFind, i, Len(clientsToFind))))
    IN  IF r.status = "STOP"
        THEN [r EXCEPT !.S.clients = MarkRemaining(@, remainingClientIds)]
        ELSE r

\* handleFindAllCities after the await of a batch: apply, then stop, pace or finish;
\* upstreams is what the generateContent call may have done
BatchReturnFrom(upstreams) ==
    /\ run.pc = "call"
    /\ \E upstream \in upstreams :
          LET batch == Slice(run.clientsToFind, run.i, run.i + BATCH_SIZE)
              resultMap == findClientCitiesBatch(batch, upstream)
              r == ApplyBatch(Cur, run.clientsToFind, run.i, upstream, now)
          IN  /\ budget >= Cost(batch, upstream)
              /\ budget' = budget - Cost(batch, upstream)
              /\ hist' = Outcome("BatchReturn", IdsOf(batch), upstream, resultMap, r.status,
                                  stale.run)
              /\ LET after == IF CallsReset(resultMap) THEN AllStale(stale, FALSE) ELSE stale
                 IN  stale' = [after EXCEPT !.run = IF r.status = "STOP"
                                                           \/ ~MoreBatches(run.i, Len(run.clientsToFind))
                                                      THEN FALSE ELSE @]
              /\ IF r.status = "STOP"
                 THEN /\ Commit(SaveEffect(r.S))
                      /\ run' = [run EXCEPT !.pc = "idle", !.returns = @ + 1,
                                            !.outcome = "stopped"]
                      /\ isFindingAll' = FALSE
                 ELSE IF MoreBatches(run.i, Len(run.clientsToFind))
                 THEN /\ Commit(SaveEffect(r.S))
                      /\ run' = [run EXCEPT !.pc = "delay", !.due = now + RPM_DELAY,
                                            !.returns = @ + 1]
                      /\ UNCHANGED isFindingAll
                 ELSE /\ Commit(SaveEffect(r.S))
                      /\ run' = [run EXCEPT !.pc = "idle", !.returns = @ + 1,
                                            !.outcome = "completed"]
                      /\ isFindingAll' = FALSE
    /\ UNCHANGED <<download, now, manual, loads>>

BatchReturn == BatchReturnFrom(Upstreams(Slice(run.clientsToFind, run.i, run.i + BATCH_SIZE)))

\* faulty variant: the loop does not wait for the lookup it has sent
PacingElapsed_Overlap ==
    /\ run.pc \in {"call", "delay"}
    /\ MoreBatches(run.i, Len(run.clientsToFind))
    /\ run' = [run EXCEPT !.pc = "call", !.i = @ + BATCH_SIZE, !.calls = Append(@, now)]
    /\ hist' = Plain("PacingElapsed")
    /\ UNCHANGED <<stale, download, apiKey, sheetId, clients, isLoading, error, isFindingAll,
                   rateLimitMessage,
                   showDailyLimitWarning, rateLimitHistory, storage, now, manual, loads,
                   budget>>

\* faulty variant: the next batch is dispatched without waiting for the timer
PacingElapsed_NoWait ==
    /\ run.pc = "delay"
    /\ run' = [run EXCEPT !.pc = "call", !.i = @ + BATCH_SIZE, !.calls = Append(@, now)]
    /\ hist' = Plain("PacingElapsed")
    /\ UNCHANGED <<stale, download, apiKey, sheetId, clients, isLoading, error, isFindingAll,
                   rateLimitMessage,
                   showDailyLimitWarning, rateLimitHistory, storage, now, manual, loads,
                   budget>>

\* faulty variant: the loop resumes only after the time the timer was due
PacingElapsed_Late ==
    /\ run.pc = "delay"
    /\ now > run.due
    /\ run' = [run EXCEPT !.pc = "call", !.i = @ + BATCH_SIZE, !.calls = Append(@, now)]
    /\ hist' = Plain("PacingElapsed")
    /\ UNCHANGED <<stale, download, apiKey, sheetId, clients, isLoading, error, isFindingAll,
                   rateLimitMessage,
                   showDailyLimitWarning, rateLimitHistory, storage, now, manual, loads,
                   budget>>

\* the pacing timer fires: the loop steps to the next batch and dispatches it
PacingElapsed ==
    /\ run.pc = "delay"
    /\ now >= run.due
    /\ run' = [run EXCEPT !.pc = "call", !.i = @ + BATCH_SIZE, !.calls = Append(@, now)]
    /\ hist' = Plain("PacingElapsed")
    /\ UNCHANGED <<stale, download, apiKey, sheetId, clients, isLoading, error, isFindingAll,
                   rateLimitMessage,
                   showDailyLimitWarning, rateLimitHistory, storage, now, manual, loads,
                   budget>>

\* time passes while a lookup or the pacing timer is pending (Date.now() is read only
\* when a lookup returns, and the timer only when it is pending)
Tick(d) ==
    /\ run.pc # "idle" \/ manual # <<>>
    /\ budget > 0
    /\ budget' = budget - 1
    /\ now' = now + d
    /\ hist' = Plain("Tick")
    /\ UNCHANGED <<stale, download, apiKey, sheetId, clients, isLoading, error, isFindingAll,
                   rateLimitMessage,
                   showDailyLimitWarning, rateLimitHistory, storage, run, manual, loads>>

\* the dismiss button of the daily-limit warning
DismissWarning ==
    /\ TableShown
    /\ showDailyLimitWarning
    /\ budget > 0
    /\ budget' = budget - 1
    /\ showDailyLimitWarning' = FALSE
    /\ hist' = Plain("DismissWarning")
    /\ UNCHANGED <<stale, download, apiKey, sheetId, clients, isLoading, error, isFindingAll,
                   rateLimitMessage,
                   rateLimitHistory, storage, now, run, manual, loads>>

Next ==
    \/ Reload
    \/ \E data \in SetupInputs : SetupSubmit(data)
    \/ ResetSettings
    \/ \E ok \in BOOLEAN : LoadReturn(ok)
    \/ RetryLoad
    \/ \E id \in TouchedRows, city \in EditCities : CityChange(id, city)
    \/ \E id \in TouchedRows : FindCityStart(id)
    \/ \E k \in 1..Len(manual) : FindCityReturn(k)
    \/ FindAllStart
    \/ FindAllNothing
    \/ BatchReturn
    \/ PacingElapsed
    \/ \E d \in {RPM_DELAY, DAILY_LIMIT_GAP} : Tick(d)

Spec == Init /\ [][Next]_vars

(* ------------------- behaviours of the rate-limit monitor ------------- *)
\* the configured application, with more events to take
InitRate ==
    /\ FreshState([apiKey |-> "k1", sheetId |-> "s1", clients |-> NoMap])
    /\ now = 0
    /\ download = NoDownload
    /\ stale = NoneStale
    /\ hist = Plain("init")
    /\ budget = MaxRateEvents

\* a lookup is rejected for the rate limit or comes back with a city for every record
RateUpstreams(batch) == {Rejected("429"), ArrayText(GoodItems(batch))}

\* the clock steps: the pacing interval, the daily-limit gap and one millisecond more
RateTicks == {RPM_DELAY, DAILY_LIMIT_GAP, DAILY_LIMIT_GAP + 1}

NextRate ==
    \/ LoadReturn(TRUE)
    \/ FindCityStart(0)
    \/ \E k \in 1..Len(manual) : FindCityReturnFrom(k, RateUpstreams(<<manual[k]>>))
    \/ \E d \in RateTicks : Tick(d)
    \/ DismissWarning

SpecRate == InitRate /\ [][NextRate]_vars

(* ------------------- the providers of the lookup gateway -------------- *)
\* a value of the map a provider returns: an object with city and jobTitle, or a string
Obj(city, jobTitle) == [type |-> "object", city |-> city, jobTitle |-> jobTitle, text |-> ""]
Str(text) == [type |-> "string", city |-> "", jobTitle |-> "", text |-> text]

\* a property an element of the response does not have, or has with another type
Undefined == "<undefined>"

\* typeof item.id === 'number' && typeof item.city === 'string' &&
\* typeof item.jobTitle === 'string' (the elements drawn all have a number as id)
WellTyped(item) == item.city # Undefined /\ item.jobTitle # Undefined

\* the loop over the elements of the response: resultMap.set(item.id, {city, jobTitle})
\* for the elements that pass the type test
RECURSIVE SetTyped(_, _)
SetTyped(m, items) ==
    IF items = <<>> THEN m
    ELSE IF WellTyped(Head(items))
    THEN LET city == TrimCity(Head(items).city)
         IN  SetTyped(MapSet(m, Head(items).id,
                             Obj(IF city = "" THEN "Not Found" ELSE city,
                                 TrimCity(Head(items).jobTitle))),
                      Tail(items))
    ELSE SetTyped(m, Tail(items))

\* faulty variant: the provider returns what the response named and nothing else
EnsureAll_None(m, batch) == m

\* the closing loop of both providers: a client without an entry gets the no-result text
RECURSIVE EnsureAll(_, _)
EnsureAll(m, batch) ==
    IF batch = <<>> THEN m
    ELSE EnsureAll(IF MapHas(m, Head(batch).id) THEN m
                   ELSE MapSet(m, Head(batch).id, Str("Error: No result from AI")),
                   Tail(batch))

\* what generateContent can do besides the outcomes above: resolve to a text of several
\* lines that each start with '{' (JSON Lines), or to a response without text
LinesText(items) == [kind |-> "json_lines", message |-> "", items |-> items]
NoText == [kind |-> "no_text", message |-> "", items |-> <<>>]

\* findClientCitiesBatch of geminiService.ts, given what the generateContent call does
findClientCitiesBatchGemini(batch, upstream) ==
    CASE batch = <<>> -> <<>>
      [] upstream.kind = "rejected" -> AllTo(batch, Str(ErrorType(upstream.message)))
      [] upstream.kind = "no_text" ->
            AllTo(batch, Str(ErrorType("Cannot read properties of undefined")))
      [] upstream.kind = "json_lines" -> EnsureAll(SetTyped(<<>>, upstream.items), batch)
      [] upstream.kind = "no_array" -> AllTo(batch, Str("Error: Malformed Response"))
      [] upstream.kind = "bad_json" -> AllTo(batch, Str("Error: Malformed Response"))
      [] OTHER -> EnsureAll(SetTyped(<<>>, upstream.items), batch)

\* what the fetch of the OpenAI provider can do: reject; resolve to a response that is not
\* ok, with a JSON body (error code and message) or another body; resolve to an ok
\* response whose content does not parse, parses to an object without a results array,
\* or parses to one with it
HttpError(status, code, message) ==
    [kind |-> "http_error", status |-> status, code |-> code, message |-> message,
     items |-> <<>>]
HttpErrorNoJson(status) ==
    [kind |-> "http_error_no_json", status |-> status, code |-> "", message |-> "",
     items |-> <<>>]
BadContent == [kind |-> "bad_content", status |-> 200, code |-> "", message |-> "", items |-> <<>>]
NoResults == [kind |-> "no_results", status |-> 200, code |-> "", message |-> "", items |-> <<>>]
Results(items) ==
    [kind |-> "results", status |-> 200, code |-> "", message |-> "", items |-> items]

\* errorType of the !response.ok branch
HttpErrorType(upstream) ==
    IF upstream.code = "insufficient_quota" THEN "Insufficient Quota"
    ELSE IF upstream.status = 401 THEN "Invalid API Key"
    ELSE IF upstream.status = 429 THEN "Rate Limit Exceeded"
    ELSE "API Error: " \o
            (IF upstream.message # "" THEN upstream.message
             ELSE "An unknown API error occurred.")

\* findClientCitiesBatchOpenAI, given what the fetch does; when the error body is no JSON
\* the second read of the body, response.text(), is refused and the outer catch answers
findClientCitiesBatchOpenAI(batch, upstream) ==
    CASE batch = <<>> -> <<>>
      [] upstream.kind = "rejected" -> AllTo(batch, Str("API Error: " \o upstream.message))
      [] upstream.kind = "http_error" -> AllTo(batch, Str(HttpErrorType(upstream)))
      [] upstream.kind = "http_error_no_json" ->
            AllTo(batch, Str("API Error: " \o "body stream already read"))
      [] upstream.kind = "bad_content" -> AllTo(batch, Str("API Error: " \o "Unexpected token"))
      [] upstream.kind = "no_results" -> EnsureAll(<<>>, batch)
      [] OTHER -> EnsureAll(SetTyped(<<>>, upstream.items), batch)

\* the batches a provider is called with: the first records of the sheet, and two
\* records that are not neighbours
GatewayBatches ==
    {SubSeq(SheetClients, 1, n) : n \in 1..3} \cup {<<SheetClients[2], SheetClients[4]>>}

\* the item lists of a response: those of ItemLists, the good one with the first item
\* without a job title, and the good one where no item has one (the older answer format)
TypedItemLists(batch) ==
    LET good == GoodItems(batch)
    IN  ItemLists(batch)
            \cup {[good EXCEPT ![1].jobTitle = Undefined]}
            \cup {[k \in 1..Len(good) |-> [good[k] EXCEPT !.jobTitle = Undefined]]}
            \cup {[good EXCEPT ![1].jobTitle = ""]}

GeminiUpstreams(batch) ==
    {Rejected(m) : m \in {"API key not valid", "429", "fetch failed"}}
        \cup {NoArrayText, BadJsonText, NoText}
        \cup {ArrayText(items) : items \in TypedItemLists(batch)}
        \cup {LinesText(items) : items \in {l \in TypedItemLists(batch) : Len(l) > 1}}

OpenAIUpstreams(batch) ==
    {Rejected("Failed to fetch")}
        \cup {HttpError(401, "invalid_api_key", "Incorrect API key provided"),
              HttpError(429, "rate_limit_exceeded", "Rate limit reached"),
              HttpError(429, "insufficient_quota", "You exceeded your current quota"),
              HttpError(500, "", ""), HttpError(503, "", "Overloaded")}
        \cup {HttpErrorNoJson(502), BadContent, NoResults}
        \cup {Results(items) : items \in TypedItemLists(batch)}

\* one call of a provider: its inputs and the map it returns
GatewayStep(provider, batch, upstream, resultMap) ==
    [op |-> provider, pre |-> clients, was |-> Cur, batch |-> IdsOf(batch),
     upstream |-> upstream, resultMap |-> resultMap, status |-> ""]

\* geminiService.findClientCitiesBatch is called and returns
GeminiLookup ==
    /\ \E batch \in GatewayBatches : \E upstream \in GeminiUpstreams(batch) :
          hist' = GatewayStep("findClientCitiesBatch", batch, upstream,
                              findClientCitiesBatchGemini(batch, upstream))
    /\ UNCHANGED <<stale, download, apiKey, sheetId, clients, isLoading, error, isFindingAll,
                   rateLimitMessage,
                   showDailyLimitWarning, rateLimitHistory, storage, now, run, manual, loads,
                   budget>>

\* findClientCitiesBatchOpenAI is called and returns
OpenAILookup ==
    /\ \E batch \in GatewayBatches : \E upstream \in OpenAIUpstreams(batch) :
          hist' = GatewayStep("findClientCitiesBatchOpenAI", batch, upstream,
                              findClientCitiesBatchOpenAI(batch, upstream))
    /\ UNCHANGED <<stale, download, apiKey, sheetId, clients, isLoading, error, isFindingAll,
                   rateLimitMessage,
                   showDailyLimitWarning, rateLimitHistory, storage, now, run, manual, loads,
                   budget>>

NextGateway ==
    \/ GeminiLookup
    \/ OpenAILookup

\* the providers on their own, called again and again with the batches and responses above
SpecGateway == Init /\ [][NextGateway]_vars

(* ------------------- the importer and the export formatter ------------ *)
\* a text is a sequence of symbols: the comma, the double quote, the line feed, the
\* carriage return, the blank, the byte order mark, and words (a word stands for a run of
\* other characters)
DQ == "\""
LF == "\n"
CR == "\r"
BOM == "<U+FEFF>"
CsvWhite == {" ", "\t", LF, CR}

\* String.prototype.trim
RECURSIVE TrimStart(_)
TrimStart(s) == IF s # <<>> /\ Head(s) \in CsvWhite THEN TrimStart(Tail(s)) ELSE s

RECURSIVE TrimEnd(_)
TrimEnd(s) ==
    IF s # <<>> /\ s[Len(s)] \in CsvWhite THEN TrimEnd(SubSeq(s, 1, Len(s) - 1)) ELSE s

Trim(s) == TrimEnd(TrimStart(s))

\* String.prototype.toLowerCase on the words of the sheets
ToLowerWord(w) ==
    CASE w \in {"Client first name", "CLIENT FIRST NAME"} -> "client first name"
      [] w \in {"Client second name", "CLIENT SECOND NAME"} -> "client second name"
      [] w = "Client first name (legal)" -> "client first name (legal)"
      [] w \in {"Job Title", "JOB TITLE"} -> "job title"
      [] w \in {"Company", "COMPANY"} -> "company"
      [] w = "Identified City" -> "identified city"
      [] w \in {"City", "CITY"} -> "city"
      [] w = "Exported sheet" -> "exported sheet"
      [] w = "Ann" -> "ann"
      [] w = "Bob" -> "bob"
      [] w = "Lee" -> "lee"
      [] w = "Ray" -> "ray"
      [] w = "CTO" -> "cto"
      [] w = "CEO" -> "ceo"
      [] w = "Acme" -> "acme"
      [] w = "Bolt" -> "bolt"
      [] w = "Inc" -> "inc"
      [] w = "Jr" -> "jr"
      [] w = "Dee" -> "dee"
      [] w = "Fox" -> "fox"
      [] w = "Eve" -> "eve"
      [] w = "Oslo" -> "oslo"
      [] w = "Paris" -> "paris"
      [] w = "FR" -> "fr"
      [] OTHER -> w

LowerLine(line) == [k \in 1..Len(line) |-> ToLowerWord(line[k])]

\* String.prototype.includes for a marker that is one word: some word of the line holds it
LineIncludes(line, marker) ==
    \E k \in 1..Len(line) :
        \/ line[k] = marker
        \/ marker = "client first name" /\ line[k] = "client first name (legal)"

\* csvText.substring(1) when the text starts with the byte order mark
StripBOM(csvText) == IF csvText # <<>> /\ Head(csvText) = BOM THEN Tail(csvText) ELSE csvText

\* String.prototype.split(/\r?\n/)
RECURSIVE SplitLinesFrom(_, _)
SplitLinesFrom(s, cur) ==
    IF s = <<>> THEN <<cur>>
    ELSE IF Head(s) = LF THEN <<cur>> \o SplitLinesFrom(Tail(s), <<>>)
    ELSE IF Head(s) = CR /\ Len(s) >= 2 /\ s[2] = LF
    THEN <<cur>> \o SplitLinesFrom(Tail(Tail(s)), <<>>)
    ELSE SplitLinesFrom(Tail(s), Append(cur, Head(s)))

SplitLines(s) == SplitLinesFrom(s, <<>>)

\* the index (from 1) of the first element of s that satisfies Test, 0 when there is none
FindIndex(s, Test(_)) ==
    LET hits == {k \in 1..Len(s) : Test(s[k])}
    IN  IF hits = {} THEN 0 ELSE CHOOSE k \in hits : \A j \in hits : k <= j

IndexOf(s, v) == FindIndex(s, LAMBDA x : x = v)

\* lines.findIndex(line => ... includes both markers)
headerRowIndex(lines) ==
    FindIndex(lines, LAMBDA line :
        /\ LineIncludes(LowerLine(line), "client first name")
        /\ LineIncludes(LowerLine(line), "client second name"))

QuoteCount(s) == Cardinality({k \in 1..Len(s) : s[k] = DQ})

\* line.split(/,(?=(?:(?:[^"]*"){2})*[^"]*$)/g): at every comma that an even number of
\* double quotes follows
RECURSIVE SplitCommasFrom(_, _)
SplitCommasFrom(s, cur) ==
    IF s = <<>> THEN <<cur>>
    ELSE IF Head(s) = "," /\ QuoteCount(Tail(s)) % 2 = 0
    THEN <<cur>> \o SplitCommasFrom(Tail(s), <<>>)
    ELSE SplitCommasFrom(Tail(s), Append(cur, Head(s)))

\* val.replace(/^"|"$/g, ''): one double quote off the start and one off the end
StripQuotes(val) ==
    LET rest == IF val # <<>> /\ Head(val) = DQ THEN Tail(val) ELSE val
    IN  IF rest # <<>> /\ rest[Len(rest)] = DQ THEN SubSeq(rest, 1, Len(rest) - 1) ELSE rest

\* parseLine
parseLine(line) ==
    LET values == SplitCommasFrom(line, <<>>)
    IN  Array([k \in 1..Len(values) |-> Trim(StripQuotes(Trim(values[k])))])

\* values[index] || '' (index from 1, 0 for a column the header row does not have)
ValueAt(values, index) == IF index >= 1 /\ index <= Len(values) THEN values[index] ELSE <<>>

\* faulty variant: the identity is the position among the records emitted
EmitId_Position(index, position) == position

\* the id of the record of a data line: its index in dataLines
EmitId(index, position) == index

\* faulty variant: a row with a city is imported like any other
Located_Never(values, cityIndex) == FALSE

\* the row has data in the city column: cityIndex > -1 && values[cityIndex] &&
\* values[cityIndex].trim() !== ''
Located(values, cityIndex) ==
    cityIndex > 0 /\ ValueAt(values, cityIndex) # <<>> /\ Trim(ValueAt(values, cityIndex)) # <<>>

\* the records of the data lines from line k on; position counts the records emitted so far
RECURSIVE ClientsOfLines(_, _, _, _)
ClientsOfLines(dataLines, k, position, cols) ==
    IF k > Len(dataLines) THEN <<>>
    ELSE LET values == parseLine(dataLines[k])
         IN  IF Trim(dataLines[k]) = <<>> \/ Located(values, cols.city)
             THEN ClientsOfLines(dataLines, k + 1, position, cols)
             ELSE <<[id |-> EmitId(k - 1, position),
                     firstName |-> ValueAt(values, cols.firstName),
                     lastName |-> ValueAt(values, cols.lastName),
                     jobTitle |-> ValueAt(values, cols.jobTitle),
                     company |-> ValueAt(values, cols.company),
                     city |-> "", cityStatus |-> "idle"]>>
                  \o ClientsOfLines(dataLines, k + 1, position + 1, cols)

\* what a call of parseCSV or fetchClients gives: the records, or the error thrown
Fetched(records) == [ok |-> TRUE, error |-> "", clients |-> records]
Thrown(message) == [ok |-> FALSE, error |-> message, clients |-> <<>>]

\* parseCSV(csvText)
parseCSV(csvText) ==
    LET lines == SplitLines(Trim(StripBOM(csvText)))
        h == headerRowIndex(lines)
    IN  IF h = 0 THEN Thrown("CSV headers are missing or incorrect")
        ELSE
        LET headers == Array([k \in 1..Len(parseLine(lines[h])) |->
                                LowerLine(Trim(parseLine(lines[h])[k]))])
            cols == [firstName |-> IndexOf(headers, <<"client first name">>),
                     lastName |-> IndexOf(headers, <<"client second name">>),
                     jobTitle |-> IndexOf(headers, <<"job title">>),
                     company |-> IndexOf(headers, <<"company">>),
                     city |-> FindIndex(headers,
                                LAMBDA x : x \in {<<"identified city">>, <<"city">>})]
        IN  IF cols.firstName = 0 \/ cols.lastName = 0
            THEN Thrown("Could not map all required CSV columns")
            ELSE Fetched(ClientsOfLines(SubSeq(lines, h + 1, Len(lines)), 1, 0, cols))

\* what the fetch of the export URL gives: a response that is not ok, or a text
NotOk == [ok |-> FALSE, text |-> <<>>]
OkText(text) == [ok |-> TRUE, text |-> text]

\* fetchClients(sheetId), given the response of the fetch
fetchClients(response) ==
    IF ~response.ok THEN Thrown("Failed to fetch sheet via proxy")
    ELSE IF Len(Trim(response.text)) = 0 THEN Thrown("Received empty data from the sheet")
    ELSE parseCSV(response.text)

\* elements joined with a separator: Array.prototype.join
RECURSIVE Join(_, _)
Join(parts, sep) ==
    IF parts = <<>> THEN <<>>
    ELSE IF Len(parts) = 1 THEN parts[1]
    ELSE parts[1] \o sep \o Join(Tail(parts), sep)

\* str.replace(/"/g, '""')
RECURSIVE DoubleQuotes(_)
DoubleQuotes(s) ==
    IF s = <<>> THEN <<>>
    ELSE (IF Head(s) = DQ THEN <<DQ, DQ>> ELSE <<Head(s)>>) \o DoubleQuotes(Tail(s))

\* formatCsvField
formatCsvField(field) ==
    IF \E k \in 1..Len(field) : field[k] \in {",", DQ, LF}
    THEN <<DQ>> \o DoubleQuotes(field) \o <<DQ>>
    ELSE field

\* the symbols of the city of a record (a city is kept as one string in the working set)
CityText(city) ==
    CASE city = "" -> <<>>
      [] city = "Paris, FR" -> <<"Paris", ",", " ", "FR">>
      [] OTHER -> <<city>>

\* faulty variant: the file has no city column
handleDownloadCSV_NoCity(cl) ==
    LET headers == <<<<"Client first name">>, <<"Client second name">>, <<"Job Title">>,
                     <<"Company">>>>
        csvRows == <<Join(headers, <<",">>)>> \o
            [k \in 1..Len(cl) |->
                Join(<<formatCsvField(cl[k].firstName), formatCsvField(cl[k].lastName),
                       formatCsvField(cl[k].jobTitle), formatCsvField(cl[k].company)>>,
                     <<",">>)]
    IN  Join(csvRows, <<LF>>)

\* csvString of handleDownloadCSV
handleDownloadCSV(cl) ==
    LET headers == <<<<"Client first name">>, <<"Client second name">>, <<"Job Title">>,
                     <<"Company">>, <<"Identified City">>>>
        csvRows == <<Join(headers, <<",">>)>> \o
            [k \in 1..Len(cl) |->
                Join(<<formatCsvField(cl[k].firstName), formatCsvField(cl[k].lastName),
                       formatCsvField(cl[k].jobTitle), formatCsvField(cl[k].company),
                       formatCsvField(CityText(cl[k].city))>>,
                     <<",">>)]
    IN  Join(csvRows, <<LF>>)

(* ------------------------------ the sheets ---------------------------- *)
\* a row of a sheet: the line the export writes for it, whether the line is blank,
\* whether its fifth cell (the city column, where the header row has one) holds a value,
\* and a word of its first cell ("" when the first cell is empty)
Row(line, blank, located, word) ==
    [line |-> line, blank |-> blank, located |-> located, word |-> word]

RowAnn == Row(<<"Ann", ",", "Lee", ",", "CTO", ",", "Acme">>, FALSE, FALSE, "Ann")
RowBob ==
    Row(<<"Bob", ",", "Ray", ",", "CEO", ",", "Bolt", ",", "Oslo">>, FALSE, TRUE, "Bob")
RowBlank == Row(<<>>, TRUE, FALSE, "")
\* "Lee, Ann",Ray,CTO,"Acme, Inc"
RowCommaCells ==
    Row(<<DQ, "Lee", ",", " ", "Ann", DQ, ",", "Ray", ",", "CTO", ",",
          DQ, "Acme", ",", " ", "Inc", DQ>>, FALSE, FALSE, "Lee")
\* "Ann ""Jr""",Lee,,Acme
RowQuote ==
    Row(<<DQ, "Ann", " ", DQ, DQ, "Jr", DQ, DQ, DQ, ",", "Lee", ",", ",", "Acme">>,
        FALSE, FALSE, "Jr")
\* Dee,Fox,CTO,Acme,"" and Dee,Fox,CTO,Acme followed by a comma and a blank
RowEmptyCity ==
    Row(<<"Dee", ",", "Fox", ",", "CTO", ",", "Acme", ",", DQ, DQ>>, FALSE, FALSE, "Dee")
RowBlankCity ==
    Row(<<"Dee", ",", "Fox", ",", "CTO", ",", "Acme", ",", " ">>, FALSE, FALSE, "Dee")
\* Eve,Fox,CEO,Bolt,"Paris, FR"
RowQuotedCity ==
    Row(<<"Eve", ",", "Fox", ",", "CEO", ",", "Bolt", ",", DQ, "Paris", ",", " ", "FR", DQ>>,
        FALSE, TRUE, "Eve")
RowShort == Row(<<"Eve">>, FALSE, FALSE, "Eve")
RowCommas == Row(<<",", ",", ",", ",">>, FALSE, FALSE, "")
RowSpaces == Row(<<" ", " ">>, TRUE, FALSE, "")

CoreRows == {RowAnn, RowBob, RowBlank, RowCommaCells, RowQuote}
EdgeRows == {RowEmptyCity, RowBlankCity, RowQuotedCity, RowShort, RowCommas, RowSpaces}

RECURSIVE RowSeqs(_)
RowSeqs(n) ==
    IF n = 0 THEN {<<>>}
    ELSE RowSeqs(n - 1) \cup
         {Append(rows, r) : rows \in {q \in RowSeqs(n - 1) : Len(q) = n - 1}, r \in CoreRows}

\* the rows of the sheets: up to MaxCsvRows core rows, and an edge row before and after
\* a core row
SheetRows ==
    RowSeqs(MaxCsvRows) \cup {<<e, RowAnn>> : e \in EdgeRows} \cup {<<RowBob, e>> : e \in EdgeRows}

HeaderPlain ==
    <<"Client first name", ",", "Client second name", ",", "Job Title", ",", "Company">>
HeaderCity == HeaderPlain \o <<",", "Identified City">>
HeaderUpper ==
    <<"CLIENT FIRST NAME", ",", "CLIENT SECOND NAME", ",", "JOB TITLE", ",", "COMPANY", ",",
      "CITY">>
HeaderNoSecond == <<"Client first name", ",", "Job Title", ",", "Company">>
HeaderInexact == <<"Client first name (legal)", ",", "Client second name">>

\* a sheet: the lines before the header row, the header row, whether it has a city column,
\* the rows, the line break and whether the text starts with the byte order mark
Sheet(before, header, hasCity, rows, eol, bom) ==
    [kind |-> "sheet", before |-> before, header |-> header, hasCity |-> hasCity,
     rows |-> rows, eol |-> eol, bom |-> bom]

Sheets ==
    {Sheet(<<>>, h, h # HeaderPlain, rows, <<LF>>, FALSE) :
        h \in {HeaderPlain, HeaderCity, HeaderUpper}, rows \in SheetRows}
    \cup {Sheet(<<<<>>, <<"Exported sheet">>>>, HeaderCity, TRUE, rows, <<CR, LF>>, TRUE) :
            rows \in SheetRows}
    \cup {Sheet(<<>>, h, FALSE, <<RowAnn>>, <<LF>>, FALSE) : h \in {HeaderNoSecond, HeaderInexact}}

\* the text the export of a sheet is
TextOf(sheet) ==
    (IF sheet.bom THEN <<BOM>> ELSE <<>>) \o
    Join(sheet.before \o <<sheet.header>> \o [k \in 1..Len(sheet.rows) |-> sheet.rows[k].line],
         sheet.eol)

\* the file downloaded, put where the sheet was
Downloaded == [kind |-> "download"]

\* the responses of the fetch: the export of a sheet (of the file downloaded, once there is
\* one), a response that is not ok, an empty text
Sources ==
    IF download.made
    THEN {Downloaded}
    ELSE Sheets \cup {[kind |-> "not_ok"], [kind |-> "empty"]}

ResponseOf(source) ==
    CASE source.kind = "download" -> OkText(download.text)
      [] source.kind = "not_ok" -> NotOk
      [] source.kind = "empty" -> OkText(<<LF>>)
      [] OTHER -> OkText(TextOf(source))

\* the last step was a load: the source, the text fetched and what fetchClients gave
ImportStep(source, response, result) ==
    [op |-> IF result.ok THEN "ImportOk" ELSE "ImportFailed", pre |-> clients, was |-> Cur,
     source |-> source, text |-> response.text, fetched |-> result.clients,
     error |-> result.error]

\* loadClients after its await, with fetchClients computed on the response of the fetch
LoadCsvReturn ==
    \E source \in Sources :
        LET response == ResponseOf(source)
            result == fetchClients(response)
        IN  /\ LoadApply(result.ok, result.clients)
            /\ hist' = ImportStep(source, response, result)

\* the Download button: handleDownloadCSV (the first download of a behaviour is followed)
DownloadCSV ==
    /\ TableShown
    /\ Len(clients) > 0
    /\ ~download.made
    /\ download' = [made |-> TRUE, text |-> handleDownloadCSV(clients), clients |-> clients]
    /\ stale' = stale
    /\ hist' = Plain("DownloadCSV")
    /\ UNCHANGED <<apiKey, sheetId, clients, isLoading, error, isFindingAll,
                   rateLimitMessage, showDailyLimitWarning, rateLimitHistory, storage, now,
                   run, manual, loads, budget>>

\* the cities the user types in
CsvCities == {"Oslo", "Paris, FR"}

\* the row the user edits: the first of the table
CsvEditIds == IF clients = <<>> THEN {} ELSE {clients[1].id}

InitCsv ==
    /\ FreshState([apiKey |-> "k1", sheetId |-> "s1", clients |-> NoMap])
    /\ now = 0
    /\ download = NoDownload
    /\ stale = NoneStale
    /\ hist = Plain("init")
    /\ budget = MaxCsvEvents

NextCsv ==
    \/ LoadCsvReturn
    \/ \E id \in CsvEditIds, city \in CsvCities : CityChange(id, city)
    \/ DownloadCSV
    \/ download.made /\ Reload

\* the configured application over the sheets above: load, edit, download, and load again
\* with the file downloaded as the sheet
SpecCsv == InitCsv /\ [][NextCsv]_vars

(* ------------------ behaviours in which a bulk run must end ----------- *)
\* the configured application within one life of the page
InitLive ==
    /\ FreshState([apiKey |-> "k1", sheetId |-> "s1", clients |-> NoMap])
    /\ now = 0
    /\ download = NoDownload
    /\ stale = NoneStale
    /\ hist = Plain("init")
    /\ budget = MaxLiveEvents

\* the clock reaches the time the pacing timer of the run is due (setTimeout fires)
TimePasses ==
    /\ run.pc = "delay"
    /\ now < run.due
    /\ now' = run.due
    /\ hist' = Plain("TimePasses")
    /\ UNCHANGED <<stale, download, apiKey, sheetId, clients, isLoading, error, isFindingAll,
                   rateLimitMessage,
                   showDailyLimitWarning, rateLimitHistory, storage, run, manual, loads,
                   budget>>

\* the handlers of the application and the clock, without the reload of the page (which
\* ends every handler)
NextLive ==
    \/ \E data \in SetupInputs : SetupSubmit(data)
    \/ ResetSettings
    \/ \E ok \in BOOLEAN : LoadReturn(ok)
    \/ RetryLoad
    \/ \E id \in TouchedRows, city \in EditCities : CityChange(id, city)
    \/ \E id \in TouchedRows : FindCityStart(id)
    \/ \E k \in 1..Len(manual) : FindCityReturn(k)
    \/ FindAllStart
    \/ FindAllNothing
    \/ BatchReturn
    \/ PacingElapsed
    \/ TimePasses
    \/ \E d \in {RPM_DELAY, DAILY_LIMIT_GAP} : Tick(d)

\* the lookup the run awaits returns, seen from the run alone: the loop leaves the await
\* with one more return, to pause, to finish or to stop (the steps of BatchReturn, which
\* can be taken whenever the run is at the await)
LookupReturns ==
    /\ run.pc = "call"
    /\ \E pc \in {"idle", "delay"}, outcome \in {"running", "completed", "stopped"} :
          run' = [run EXCEPT !.pc = pc, !.returns = @ + 1, !.outcome = outcome,
                             !.due = IF pc = "delay" THEN now + RPM_DELAY ELSE @]

\* every lookup of a run returns and every pacing timer fires
Fairness == WF_run(LookupReturns) /\ WF_vars(TimePasses) /\ WF_vars(PacingElapsed)

SpecLive == InitLive /\ [][NextLive]_vars /\ Fairness

(* ------------------------ the identity key on its own ----------------- *)
\* the characters of a field: a blank, an upper-case and a lower-case letter
FieldChars == {" ", "A", "b"}

\* the values of a field: the character sequences of up to MaxFieldLen characters
FieldValues == UNION {[1..n -> FieldChars] : n \in 0..MaxFieldLen}

\* the records the key is derived from
KeyClients ==
    {[id |-> 0, firstName |-> f, lastName |-> l, jobTitle |-> "Eng", company |-> c,
      city |-> "", cityStatus |-> "idle"] : f \in FieldValues, l \in FieldValues,
                                            c \in FieldValues}

\* the configured application and a record whose key is to be derived
InitKey ==
    /\ FreshState([apiKey |-> "k1", sheetId |-> "s1", clients |-> NoMap])
    /\ now = 0
    /\ download = NoDownload
    /\ stale = NoneStale
    /\ budget = 0
    /\ \E client \in KeyClients :
          hist = [op |-> "client", pre |-> <<>>, was |-> Cur, client |-> client, key |-> <<>>]

\* getClientUniqueKey is called with the record and returns its key
KeyDerived ==
    /\ hist.op = "client"
    /\ hist' = [hist EXCEPT !.op = "getClientUniqueKey",
                            !.key = getClientUniqueKey(hist.client)]
    /\ UNCHANGED <<stale, download, apiKey, sheetId, clients, isLoading, error, isFindingAll,
                   rateLimitMessage,
                   showDailyLimitWarning, rateLimitHistory, storage, now, run, manual, loads,
                   budget>>

NextKey == KeyDerived

\* the key function on its own, called once with each of the records above
SpecKey == InitKey /\ [][NextKey]_vars

(* =============================== claims =============================== *)
\* the step just taken applied the outcome map of a batch of a bulk run
AfterBatch == hist.op = "BatchReturn"

\* the ids the run in `run` selected, in order
Selected == IdsOf(run.clientsToFind)

\* ceil(n / b)
CeilDiv(n, b) == (n + b - 1) \div b

\* the first fatal value of an outcome map in iteration order, "" when it has none
FirstFatal(resultMap) ==
    LET fatal == {k \in 1..Len(resultMap) :
                    resultMap[k].v \in {"Invalid API Key", "Rate Limit Exceeded"}}
    IN  IF fatal = {} THEN ""
        ELSE resultMap[CHOOSE k \in fatal : \A j \in fatal : k <= j].v

RateLimitedStop == AfterBatch /\ FirstFatal(hist.resultMap) = "Rate Limit Exceeded"

InvalidKeyStop == AfterBatch /\ FirstFatal(hist.resultMap) = "Invalid API Key"

\* C1: when a bulk run starts, a record of the working set is selected if and only if its
\* city is empty or its status is error or not_found; a record with status found and a
\* non-empty city is never selected.
C1_Eligibility ==
    hist.op = "FindAllStart" =>
        /\ Selected = hist.batch
        /\ \A k \in 1..Len(hist.pre) :
              /\ (hist.pre[k].id \in Range(Selected)) <=>
                    \/ hist.pre[k].city = ""
                    \/ hist.pre[k].cityStatus \in {"error", "not_found"}
              /\ (hist.pre[k].cityStatus = "found" /\ hist.pre[k].city # "")
                    => hist.pre[k].id \notin Range(Selected)

\* a run starts over a working set with a found record it leaves out, a not_found record
\* with a city it selects, and an unenriched record it selects
C1_Witness ==
    /\ hist.op = "FindAllStart"
    /\ \E k \in 1..Len(hist.pre) :
          /\ hist.pre[k].cityStatus = "found" /\ hist.pre[k].city # ""
          /\ hist.pre[k].id \notin Range(Selected)
    /\ \E k \in 1..Len(hist.pre) :
          /\ hist.pre[k].cityStatus = "not_found" /\ hist.pre[k].city # ""
          /\ hist.pre[k].id \in Range(Selected)
    /\ \E k \in 1..Len(hist.pre) :
          /\ hist.pre[k].cityStatus = "idle" /\ hist.pre[k].city = ""
          /\ hist.pre[k].id \in Range(Selected)

\* C2: a bulk run over N eligible records issues exactly ceil(N / BATCH_SIZE) lookups when
\* no outcome is fatal; when the k-th lookup returns a fatal outcome, exactly k lookups
\* have been issued, and none is issued after it.
C2_CallCount ==
    /\ run.outcome = "completed" =>
          Len(run.calls) = CeilDiv(Len(run.clientsToFind), BATCH_SIZE)
    /\ run.outcome = "stopped" => Len(run.calls) = run.returns /\ run.pc = "idle"
    /\ run.outcome = "running" =>
          /\ Len(run.calls) <= CeilDiv(Len(run.clientsToFind), BATCH_SIZE)
          /\ run.returns < CeilDiv(Len(run.clientsToFind), BATCH_SIZE)

\* a run of two lookups has completed
C2_Witness ==
    /\ run.outcome = "completed"
    /\ Len(run.clientsToFind) > BATCH_SIZE
    /\ Len(run.calls) = 2

\* the ids of the batches after the one whose outcome map was just applied
LaterIds == Range(IdsOf(Slice(run.clientsToFind, run.i + BATCH_SIZE, Len(run.clientsToFind))))

\* the ids of the batch whose outcome map was just applied and of the batches after it
RemainingIds == Range(IdsOf(Slice(run.clientsToFind, run.i, Len(run.clientsToFind))))

\* the record the run captured for id when it started
Captured(id) ==
    run.clientsToFind[CHOOSE k \in 1..Len(run.clientsToFind) : run.clientsToFind[k].id = id]

\* C3 as stated, for a lookup that was rejected with 429 and records nobody touched since
\* the run started: every record of every later batch ends with status error and the
\* "Not Processed" marker as its city, whatever city it had before the run.
C3_Original ==
    (RateLimitedStop /\ hist.upstream.kind = "rejected") =>
        \A k \in 1..Len(clients) :
            (/\ clients[k].id \in LaterIds
             /\ Len(hist.pre) = Len(clients)
             /\ hist.pre[k].id = clients[k].id
             /\ hist.pre[k].city = Captured(clients[k].id).city
             /\ hist.pre[k].cityStatus = "finding")
                => clients[k].cityStatus = "error" /\ clients[k].city = "Not Processed"

\* C3 (amended): when a batch of a bulk run returns RateLimited, every record of every
\* later batch of that run ends with status error; its city is the "Not Processed" marker
\* if its city was empty when the batch returned and the city it had otherwise, except
\* that a record the outcome map itself names gets "Rate Limited".
C3_Amended ==
    RateLimitedStop =>
        /\ Len(clients) = Len(hist.pre)
        /\ \A k \in 1..Len(clients) :
              clients[k].id \in LaterIds =>
                  /\ clients[k].id = hist.pre[k].id
                  /\ clients[k].cityStatus = "error"
                  /\ clients[k].city =
                        IF MapHas(hist.resultMap, clients[k].id) THEN "Rate Limited"
                        ELSE IF hist.pre[k].city = "" THEN "Not Processed"
                        ELSE hist.pre[k].city

\* a rate-limited stop leaves a later record that had no city with the marker, and one
\* leaves a later record that came into the run with a city with that city
C3_Witness ==
    /\ RateLimitedStop
    /\ \E k \in 1..Len(clients) :
          /\ clients[k].id \in LaterIds
          /\ clients[k].cityStatus = "error"
          /\ hist.pre[k].city # ""
          /\ hist.pre[k].city = Captured(clients[k].id).city
          /\ clients[k].city = hist.pre[k].city
          /\ clients[k].city # "Not Processed"

ServiceErrors == {"API Error", "Error: No result from AI", "Error: Malformed Response"}

\* C5: when the outcome for a record of a batch is a service error, applying it sets the
\* record's status to error and keeps the city it had, and the run goes on.
C5_ServiceError ==
    (AfterBatch /\ hist.status = "CONTINUE" /\ Len(clients) = Len(hist.pre)) =>
        \A k \in 1..Len(clients) :
            (/\ MapHas(hist.resultMap, clients[k].id)
             /\ MapGet(hist.resultMap, clients[k].id) \in ServiceErrors)
                => clients[k].cityStatus = "error" /\ clients[k].city = hist.pre[k].city

\* the step just taken applied an outcome map (of a batch or of a manual lookup) and
\* found no fatal value in it
Applied == hist.op \in {"BatchReturn", "FindCityReturn"} /\ hist.status = "CONTINUE"

\* C6: applying a Found outcome with city c sets the record's city to c and its status to
\* found, unless c is "not found" in any letter case, which gives status not_found; a
\* NotFound outcome gives status not_found and city "Not Found".
C6_FoundNotFound ==
    Applied =>
        \A k \in 1..Len(clients) :
            MapHas(hist.resultMap, clients[k].id) =>
                LET v == MapGet(hist.resultMap, clients[k].id)
                IN  /\ v = "Not Found" =>
                          clients[k].city = "Not Found" /\ clients[k].cityStatus = "not_found"
                    /\ v \in {"not found", "NOT FOUND"} =>
                          clients[k].city = v /\ clients[k].cityStatus = "not_found"
                    /\ v \in {"Paris", "Oslo"} =>
                          clients[k].city = v /\ clients[k].cityStatus = "found"

\* one outcome map gave one record a city and another record "not found" in lower case
C6_Witness ==
    /\ Applied
    /\ \E k \in 1..Len(clients) :
          /\ MapHas(hist.resultMap, clients[k].id)
          /\ MapGet(hist.resultMap, clients[k].id) = "not found"
          /\ clients[k].cityStatus = "not_found"
    /\ \E k \in 1..Len(clients) :
          /\ MapHas(hist.resultMap, clients[k].id)
          /\ MapGet(hist.resultMap, clients[k].id) = "Paris"
          /\ clients[k].cityStatus = "found"

\* C7: applying a Found outcome that carries a job title sets the record's jobTitle to
\* the carried value.
C7_JobTitle ==
    (Applied /\ hist.upstream.kind = "array") =>
        \A j \in 1..Len(hist.upstream.items) :
            LET item == hist.upstream.items[j]
            IN  (item.city = "Paris" /\ item.jobTitle # "") =>
                    \A k \in 1..Len(clients) :
                        clients[k].id = item.id => clients[k].jobTitle = item.jobTitle

\* C8: in every reachable state every record of the working set with status found has a
\* non-empty city.
C8_FoundHasCity ==
    \A k \in 1..Len(clients) : clients[k].cityStatus = "found" => clients[k].city # ""

\* a load has merged the cache onto the imported records and restored a found record,
\* next to a record that has no city
C8_Witness ==
    /\ hist.op = "LoadOk"
    /\ \E k \in 1..Len(clients) : clients[k].cityStatus = "found" /\ clients[k].city # ""
    /\ \E k \in 1..Len(clients) : clients[k].city = ""

\* C9: when a batch returns RateLimited, every record of that batch gets status error and
\* city "Rate Limited", also the records whose entries were applied earlier in the same
\* outcome map, and the run ends there.
C9_RateLimitedBatch ==
    RateLimitedStop =>
        /\ \A k \in 1..Len(clients) :
              clients[k].id \in Range(hist.batch) =>
                  clients[k].cityStatus = "error" /\ clients[k].city = "Rate Limited"
        /\ run.pc = "idle"
        /\ run.outcome = "stopped"
        /\ ~isFindingAll

\* an outcome map whose first entry is a city and whose last entry is the rate-limit
\* text has been applied to records of the working set
C9_Witness ==
    /\ RateLimitedStop
    /\ Len(hist.resultMap) > 1
    /\ hist.resultMap[1].v = "Paris"
    /\ \E k \in 1..Len(clients) :
          /\ clients[k].id = hist.resultMap[1].id
          /\ clients[k].id \in Range(hist.batch)
          /\ clients[k].city = "Rate Limited"

\* the batch whose outcome map was just applied is the last one of its run
LastBatch == run.i \div BATCH_SIZE = CeilDiv(Len(run.clientsToFind), BATCH_SIZE) - 1

\* C10: after a non-fatal batch that is not the last one the run waits for the pacing
\* interval before it issues the next lookup, so that consecutive lookups of a run are
\* issued at least RPM_DELAY apart; there is no wait after the last batch or after a
\* fatal stop.
C10_Pacing ==
    /\ AfterBatch =>
          /\ (hist.status = "CONTINUE" /\ ~LastBatch) =>
                run.pc = "delay" /\ run.due = now + RPM_DELAY /\ isFindingAll
          /\ (hist.status = "STOP" \/ LastBatch) =>
                run.pc = "idle" /\ ~isFindingAll
    /\ hist.op = "PacingElapsed" => now >= run.due /\ run.pc = "call"
    /\ \A j \in 2..Len(run.calls) : run.calls[j] - run.calls[j - 1] >= RPM_DELAY

\* the timer of a run has fired and the second lookup has been issued
C10_Witness ==
    /\ hist.op = "PacingElapsed"
    /\ Len(run.calls) = 2
    /\ run.calls[2] - run.calls[1] >= RPM_DELAY

\* the step just taken applied an outcome map in which the first fatal value is the
\* rate-limit text
RateLimitedStep ==
    /\ hist.op \in {"BatchReturn", "FindCityReturn"}
    /\ FirstFatal(hist.resultMap) = "Rate Limit Exceeded"

\* the difference between the two most recent timestamps of a history of two or more
LastGap(history) == history[Len(history)] - history[Len(history) - 1]

\* C11: after a RateLimited classification has been appended to the rate-limit history,
\* the daily-quota signal has been raised if and only if the history holds at least two
\* timestamps and the two most recent differ by strictly more than 60 seconds; with one
\* timestamp, or a gap of 10 seconds or of exactly 60 seconds, the signal is as it was.
C11_DailySignal ==
    RateLimitedStep =>
        /\ rateLimitHistory # <<>>
        /\ rateLimitHistory[Len(rateLimitHistory)] = now
        /\ IF Len(rateLimitHistory) >= 2 /\ LastGap(rateLimitHistory) > 60000
           THEN showDailyLimitWarning
           ELSE showDailyLimitWarning = hist.was.showDailyLimitWarning

\* the second timestamp of the history is 60001 ms after the first and the signal, which
\* was down, is up
C11_Witness ==
    /\ RateLimitedStep
    /\ Len(rateLimitHistory) = 2
    /\ LastGap(rateLimitHistory) = 60001
    /\ ~hist.was.showDailyLimitWarning
    /\ showDailyLimitWarning

\* the history before the step holds two consecutive timestamps more than 60 seconds
\* apart: the signal was raised when the later of them was appended
RaisedBefore ==
    \E j \in 1..(Len(hist.was.rateLimitHistory) - 1) :
        hist.was.rateLimitHistory[j + 1] - hist.was.rateLimitHistory[j] > 60000

\* C12 as stated: once the daily-quota signal has been raised, a later RateLimited
\* classification does not raise it again.
C12_Original ==
    (RateLimitedStep /\ RaisedBefore) =>
        ~(~hist.was.showDailyLimitWarning /\ showDailyLimitWarning)

\* C12 (amended): a RateLimited classification never lowers the daily-quota signal and
\* raises it only when its timestamp is more than 60 seconds after the previous one of the
\* history; it does so every time, so after the user has dismissed the signal a later such
\* classification raises it again; only the dismissal lowers the signal.
C12_Amended ==
    /\ RateLimitedStep =>
          /\ hist.was.showDailyLimitWarning => showDailyLimitWarning
          /\ (~hist.was.showDailyLimitWarning /\ showDailyLimitWarning) =>
                Len(rateLimitHistory) >= 2 /\ LastGap(rateLimitHistory) > 60000
          /\ (RaisedBefore /\ LastGap(rateLimitHistory) > 60000) => showDailyLimitWarning
    /\ (hist.was.showDailyLimitWarning /\ ~showDailyLimitWarning) =>
          hist.op = "DismissWarning"

\* the signal was raised, dismissed, and a later classification has raised it again
C12_Witness ==
    /\ RateLimitedStep
    /\ RaisedBefore
    /\ ~hist.was.showDailyLimitWarning
    /\ showDailyLimitWarning

\* the step just taken applied an outcome map in which the first fatal value is the
\* invalid-key text
InvalidKeyStep ==
    /\ hist.op \in {"BatchReturn", "FindCityReturn"}
    /\ FirstFatal(hist.resultMap) = "Invalid API Key"

\* the step just taken sent a lookup to the gateway
Dispatched == hist.op \in {"FindAllStart", "FindCityStart", "PacingElapsed"}

\* C13: an InvalidCredential classification, in a bulk run or a manual lookup, ends the
\* run and clears the credential from localStorage and from the application's
\* configuration, which leaves the application unconfigured; from then on no lookup is
\* sent to the gateway until the user has entered a credential again.
C13_InvalidCredential ==
    /\ InvalidKeyStep =>
          /\ apiKey = "" /\ storage.apiKey = ""
          /\ ~isConfigured(Cur)
          /\ hist.op = "BatchReturn" => run.pc = "idle" /\ ~isFindingAll
    /\ Dispatched => ~(hist.was.rateLimitMessage = "invalid key" /\ hist.was.apiKey = "")

\* the step just taken applied the outcome of a lookup that the gateway classifies as
\* rate limited
RateLimitedOutcome ==
    /\ hist.op \in {"BatchReturn", "FindCityReturn"}
    /\ \/ hist.upstream = Rejected("429")
       \/ FirstFatal(hist.resultMap) = "Rate Limit Exceeded"

\* C14: a RateLimited classification leaves the stored credential, the source locator and
\* the configured state as they were, so that a later run can be started without entering
\* the settings again.
C14_RateLimitedKeepsSettings ==
    RateLimitedOutcome =>
        /\ apiKey = hist.was.apiKey
        /\ sheetId = hist.was.sheetId
        /\ storage.apiKey = hist.was.storage.apiKey
        /\ storage.sheetId = hist.was.storage.sheetId
        /\ isConfigured(Cur) <=> (hist.was.apiKey # "" /\ hist.was.sheetId # "")
        /\ Len(clients) = Len(hist.pre)

\* a bulk run has stopped on the rate limit and the Find All button is enabled again,
\* with the credential and the sheet id in place
C14_Witness ==
    /\ RateLimitedOutcome
    /\ hist.op = "BatchReturn"
    /\ apiKey = "k1" /\ storage.apiKey = "k1" /\ sheetId = "s1" /\ storage.sheetId = "s1"
    /\ TableShown
    /\ ~isFindingAll
    /\ Len(ClientsToFind(clients)) > 0

\* no other record of cl has the identity key of record k
UniqueKey(cl, k) ==
    \A j \in 1..Len(cl) : j # k => getClientUniqueKey(cl[j]) # getClientUniqueKey(cl[k])

\* the working set a reload in this state leads to: the page starts again, the sheet is
\* imported and the persisted cache is merged onto it
AfterReload == MergeClients(SheetClients, storage.clients)

\* a reload in this state imports the sheet: the page finds the credential and the sheet
\* id in localStorage
ReloadImports == storage.apiKey # "" /\ storage.sheetId # ""

\* C15: whenever a reload would import the sheet again, the import of the same sheet and
\* the merge of the persisted cache give every record whose identity key no other record
\* shares the city and the status it has now; in particular every record whose batch
\* outcome has been applied keeps them, at any point of a run.
C15_Durability ==
    (Len(clients) > 0 /\ ReloadImports) =>
        /\ Len(AfterReload) = Len(clients)
        /\ \A k \in 1..Len(clients) :
              UniqueKey(clients, k) =>
                  /\ AfterReload[k].id = clients[k].id
                  /\ AfterReload[k].city = clients[k].city
                  /\ AfterReload[k].cityStatus = clients[k].cityStatus

\* the step just taken was a settings reset: the button, or an invalid-key outcome
SettingsReset == hist.op = "ResetSettings" \/ InvalidKeyStep

\* the step just taken was a manual edit that emptied the city of a record with this key
ClearedByEdit(key) ==
    /\ hist.op = "CityChange"
    /\ hist.status = ""
    /\ \E k \in 1..Len(hist.pre) :
          hist.pre[k].id = hist.batch[1] /\ getClientUniqueKey(hist.pre[k]) = key

\* C16 as stated: an entry of the persisted mapping is still there, possibly with another
\* value, after every step that is not a settings reset.
C16_Original ==
    \A key \in DOMAIN hist.was.storage.clients :
        key \in DOMAIN storage.clients \/ SettingsReset

\* C16 (amended): an entry of the persisted mapping is still there, possibly with another
\* value, after every outcome application, import and manual edit that sets a city; the
\* steps that remove entries are the settings reset, which empties the mapping, and the
\* manual edit that empties the city of a record, which removes the entry of its key.
C16_Amended ==
    \A key \in DOMAIN hist.was.storage.clients :
        key \in DOMAIN storage.clients \/ SettingsReset \/ ClearedByEdit(key)

\* the outcome of a batch has replaced the value of an entry that was in the mapping
C16_Witness ==
    /\ hist.op = "BatchReturn"
    /\ \E key \in DOMAIN hist.was.storage.clients :
          /\ key \in DOMAIN storage.clients
          /\ hist.was.storage.clients[key].cityStatus = "finding"
          /\ storage.clients[key].cityStatus = "found"

\* C17: the merge of a load overlays only city and status: every record of the working
\* set has the id, first name, last name, job title and company of the imported record;
\* its city and status are those of the cache entry of its identity key when the mapping
\* has one, and are as imported (empty, idle) otherwise.
C17_MergeOverlay ==
    hist.op = "LoadOk" =>
        /\ Len(clients) = Len(SheetClients)
        /\ \A k \in 1..Len(clients) :
              LET imported == SheetClients[k]
                  key == getClientUniqueKey(imported)
                  savedData == hist.was.storage.clients
              IN  /\ clients[k].id = imported.id
                  /\ clients[k].firstName = imported.firstName
                  /\ clients[k].lastName = imported.lastName
                  /\ clients[k].jobTitle = imported.jobTitle
                  /\ clients[k].company = imported.company
                  /\ key \in DOMAIN savedData =>
                        /\ clients[k].city = savedData[key].city
                        /\ clients[k].cityStatus = savedData[key].cityStatus
                  /\ key \notin DOMAIN savedData =>
                        clients[k].city = "" /\ clients[k].cityStatus = "idle"

\* a load has overlaid a not_found entry on a record and left another record as imported
C17_Witness ==
    /\ hist.op = "LoadOk"
    /\ \E k \in 1..Len(clients) :
          /\ getClientUniqueKey(clients[k]) \in DOMAIN hist.was.storage.clients
          /\ clients[k].cityStatus = "not_found"
          /\ clients[k].city # ""
    /\ \E k \in 1..Len(clients) :
          /\ getClientUniqueKey(clients[k]) \notin DOMAIN hist.was.storage.clients
          /\ clients[k].cityStatus = "idle"
          /\ clients[k].city = ""

\* the bulk run a manual lookup is compared with: its only eligible record is the record
\* of the manual lookup just applied, so that its single batch holds that record
OnlyEligible == <<[id |-> hist.batch[1]]>>

\* C18: a manual lookup applies outcomes as a bulk run does: when the manual lookup of a
\* record returns, whatever the outcome, the working set, the persisted mapping and the
\* rate-limit history are what the loop body of a bulk run over that record alone makes of
\* the state before the return, and the selected record was marked in the same way when
\* the lookup started.
C18_ManualAsBulk ==
    /\ hist.op = "FindCityReturn" =>
          LET r == ApplyBatch(hist.was, OnlyEligible, 0, hist.upstream, now)
              S == SaveEffect(r.S)
          IN  /\ hist.status = r.status
              /\ clients = S.clients
              /\ storage.clients = S.storage.clients
              /\ rateLimitHistory = S.rateLimitHistory
    /\ (hist.op = "FindCityStart" /\ IdsOf(ClientsToFind(hist.pre)) = hist.batch) =>
          /\ clients = MarkFinding(hist.pre, Range(IdsOf(ClientsToFind(hist.pre))))
          /\ storage.clients = DataToStore(clients)
          /\ rateLimitMessage = ""

\* a manual lookup has returned RateLimited and its record has the city "Rate Limited",
\* not the marker of the records a bulk run did not process
C18_Witness ==
    /\ hist.op = "FindCityReturn"
    /\ FirstFatal(hist.resultMap) = "Rate Limit Exceeded"
    /\ \E k \in 1..Len(clients) :
          /\ clients[k].id = hist.batch[1]
          /\ clients[k].cityStatus = "error"
          /\ clients[k].city = "Rate Limited"

\* the ids of the batch of the bulk run that is at the gateway
BatchInFlight ==
    IF run.pc = "call"
    THEN Range(IdsOf(Slice(run.clientsToFind, run.i, run.i + BATCH_SIZE)))
    ELSE {}

\* the ids of the manual lookups that are at the gateway
ManualInFlight == Range(IdsOf(manual))

\* C19: a record that is in_progress because its lookup is in flight is not sent to the
\* gateway again before that lookup has been applied: a bulk run does not dispatch a
\* batch that holds a record whose manual lookup is in flight, and a manual lookup is not
\* started for a record that is in_progress.
C19_InFlightExcluded ==
    /\ hist.op \in {"FindAllStart", "PacingElapsed"} =>
          \A k \in 1..Len(hist.pre) :
              (hist.pre[k].cityStatus = "finding" /\ hist.pre[k].id \in ManualInFlight)
                  => hist.pre[k].id \notin BatchInFlight
    /\ hist.op = "FindCityStart" =>
          \A k \in 1..Len(hist.pre) :
              hist.pre[k].id = hist.batch[1] => hist.pre[k].cityStatus # "finding"

\* C20: a bulk run has at most one lookup at the gateway: the lookups it has issued are
\* those that have returned, plus the one it is waiting for; when a batch has returned its
\* outcome map is applied before anything else is sent, and the next lookup is issued
\* only then, for the batch that follows the ones applied.
C20_SingleInFlight ==
    /\ Len(run.calls) - run.returns = IF run.pc = "call" THEN 1 ELSE 0
    /\ AfterBatch =>
          /\ run.pc # "call"
          /\ hist.status = "CONTINUE" =>
                \A k \in 1..Len(clients) :
                    clients[k].id \in Range(hist.batch) =>
                        clients[k].cityStatus \in {"found", "not_found"}
    /\ hist.op = "PacingElapsed" =>
          /\ run.returns = Len(run.calls) - 1
          /\ run.i = BATCH_SIZE * run.returns

\* the second lookup of a run has been issued after the first had returned, and the
\* records of the first batch have the cities it brought
C20_Witness ==
    /\ hist.op = "PacingElapsed"
    /\ Len(run.calls) = 2
    /\ run.returns = 1
    /\ \A id \in Range(IdsOf(Slice(run.clientsToFind, 0, BATCH_SIZE))) :
          \E k \in 1..Len(clients) :
              clients[k].id = id /\ clients[k].cityStatus = "found" /\ clients[k].city = "Paris"

\* the step just taken was a call of a provider of the lookup gateway
ProviderReturned == hist.op \in {"findClientCitiesBatch", "findClientCitiesBatchOpenAI"}

\* the ids the response of the call named in elements that pass the type test; none when
\* the call was rejected or the response was not read as a list
NamedIds ==
    IF hist.upstream.kind \in {"array", "json_lines", "results"}
    THEN {hist.upstream.items[k].id :
            k \in {j \in 1..Len(hist.upstream.items) : WellTyped(hist.upstream.items[j])}}
    ELSE {}

\* C21: for every non-empty batch and every way a provider returns (a full answer, a
\* partial or malformed one, an HTTP error, a network exception) the returned map has a
\* key for every record of the batch; a record the answer was read but does not name gets
\* the no-result error text.
C21_GatewayCoverage ==
    ProviderReturned =>
        /\ hist.batch # <<>>
        /\ \A k \in 1..Len(hist.batch) : MapHas(hist.resultMap, hist.batch[k])
        /\ hist.upstream.kind \in {"array", "json_lines", "results", "no_results"} =>
              \A k \in 1..Len(hist.batch) :
                  hist.batch[k] \notin NamedIds =>
                      MapGet(hist.resultMap, hist.batch[k]) = Str("Error: No result from AI")

\* a provider has returned for an answer that names the last record of the batch and not
\* the first, and the first has the no-result text
C21_Witness ==
    /\ ProviderReturned
    /\ Len(hist.batch) > 1
    /\ hist.upstream.kind \in {"json_lines", "results"}
    /\ hist.batch[1] \notin NamedIds
    /\ hist.batch[Len(hist.batch)] \in NamedIds
    /\ MapGet(hist.resultMap, hist.batch[1]) = Str("Error: No result from AI")
    /\ MapGet(hist.resultMap, hist.batch[Len(hist.batch)]).type = "object"

\* the elements of a set of numbers in increasing order
SortedSeq(S) ==
    [p \in 1..Cardinality(S) |-> CHOOSE k \in S : Cardinality({j \in S : j < k}) = p - 1]

\* the step just taken was a load that fetched the export of a sheet
SheetFetched == hist.op \in {"ImportOk", "ImportFailed"} /\ hist.source.kind = "sheet"

\* the sheet has the two mandatory headers
Importable(sheet) == sheet.header \in {HeaderPlain, HeaderCity, HeaderUpper}

\* the rows of a sheet (counted from 1) that are neither blank nor excluded for the value
\* in their city column
KeptRows(sheet) ==
    {j \in 1..Len(sheet.rows) :
        ~sheet.rows[j].blank /\ ~(sheet.hasCity /\ sheet.rows[j].located)}

\* the record was made from the row: the word of the row's first cell is in its first name
MadeFrom(client, row) ==
    IF row.word = "" THEN client.firstName = <<>> ELSE row.word \in Range(client.firstName)

\* C22 as stated: the import of a sheet emits one record per row that is neither blank nor
\* excluded, in row order, and the identity of each is its zero-based position among the
\* records emitted.
C22_Original ==
    (SheetFetched /\ Importable(hist.source)) =>
        LET kept == SortedSeq(KeptRows(hist.source))
        IN  /\ hist.op = "ImportOk"
            /\ Len(hist.fetched) = Len(kept)
            /\ \A p \in 1..Len(kept) :
                  /\ MadeFrom(hist.fetched[p], hist.source.rows[kept[p]])
                  /\ hist.fetched[p].id = p - 1

\* C22 (amended): the import of a sheet emits one record per row that is neither blank nor
\* excluded, in row order, and the identity of each is the zero-based position of its row
\* among all the data rows after the header row, the skipped ones included.
C22_Amended ==
    (SheetFetched /\ Importable(hist.source)) =>
        LET kept == SortedSeq(KeptRows(hist.source))
        IN  /\ hist.op = "ImportOk"
            /\ Len(hist.fetched) = Len(kept)
            /\ \A p \in 1..Len(kept) :
                  /\ MadeFrom(hist.fetched[p], hist.source.rows[kept[p]])
                  /\ hist.fetched[p].id = kept[p] - 1

\* a sheet was imported whose first row was skipped and whose later rows gave two records,
\* with identities that are not their positions
C22_Witness ==
    /\ SheetFetched
    /\ hist.op = "ImportOk"
    /\ 1 \notin KeptRows(hist.source)
    /\ Len(hist.fetched) = 2
    /\ hist.fetched[1].id = 1
    /\ hist.fetched[2].id = 2

\* C23: the import drops, without an error, every row that is blank or has a value in the
\* city column (headed "identified city" or "city" in any letter case; a cell of blanks or
\* of two quotes is no value), and emits every other row with an empty city and status
\* idle.
C23_SkipsLocated ==
    (SheetFetched /\ Importable(hist.source)) =>
        /\ hist.op = "ImportOk"
        /\ Len(hist.fetched) = Cardinality(KeptRows(hist.source))
        /\ \A j \in 1..Len(hist.source.rows) :
              (j \in KeptRows(hist.source)) <=>
                  \E p \in 1..Len(hist.fetched) :
                      /\ hist.fetched[p].id = j - 1
                      /\ MadeFrom(hist.fetched[p], hist.source.rows[j])
        /\ \A p \in 1..Len(hist.fetched) :
              hist.fetched[p].city = "" /\ hist.fetched[p].cityStatus = "idle"

\* a sheet with a city column was imported: a blank row and a row with a city were dropped
\* and the row between them was emitted
C23_Witness ==
    /\ SheetFetched
    /\ hist.op = "ImportOk"
    /\ hist.source.hasCity
    /\ \E j \in 1..Len(hist.source.rows) : hist.source.rows[j].blank
    /\ \E j \in 1..Len(hist.source.rows) : hist.source.rows[j].located
    /\ Len(hist.fetched) = 1
    /\ hist.fetched[1].city = ""

\* the step just taken was a load that fetched the file downloaded before
FileFetched == hist.op \in {"ImportOk", "ImportFailed"} /\ hist.source.kind = "download"

\* C24: importing the export of an imported record set gives the same records: as many,
\* in the same order, with the same first name, second name, job title and company, also
\* when a value holds a comma or a double quote.
C24_RoundTrip ==
    (FileFetched /\ \A k \in 1..Len(download.clients) : download.clients[k].city = "") =>
        /\ hist.op = "ImportOk"
        /\ Len(hist.fetched) = Len(download.clients)
        /\ \A k \in 1..Len(hist.fetched) :
              /\ hist.fetched[k].firstName = download.clients[k].firstName
              /\ hist.fetched[k].lastName = download.clients[k].lastName
              /\ hist.fetched[k].jobTitle = download.clients[k].jobTitle
              /\ hist.fetched[k].company = download.clients[k].company
              /\ hist.fetched[k].city = download.clients[k].city

\* C25 as stated: importing the export of a working set emits one record for every record
\* of the working set.
C25_Original ==
    FileFetched => hist.op = "ImportOk" /\ Len(hist.fetched) = Len(download.clients)

\* the records of the working set downloaded (counted from 1) that have no city
Unlocated == {k \in 1..Len(download.clients) : download.clients[k].city = ""}

\* C25 (amended): the exported text always has the city column, headed "Identified City",
\* as its fifth column; importing the export of a working set emits one record for every
\* record without a city, in order, and none for a record with a city.
C25_Amended ==
    FileFetched =>
        /\ hist.op = "ImportOk"
        /\ SubSeq(hist.text, 1, Len(HeaderCity)) = HeaderCity
        /\ Len(hist.fetched) = Cardinality(Unlocated)
        /\ \A p \in 1..Len(hist.fetched) : hist.fetched[p].id = SortedSeq(Unlocated)[p] - 1

\* the export of a working set with a record that has a city with a comma and a record
\* that has none was imported: the second came back, the first did not
C25_Witness ==
    /\ FileFetched
    /\ Len(download.clients) > 1
    /\ download.clients[1].city = "Paris, FR"
    /\ download.clients[2].city = ""
    /\ Len(hist.fetched) = Len(download.clients) - 1
    /\ hist.fetched[1].id = 1

\* the step just taken was the start of a bulk run
BulkStarted == hist.op = "FindAllStart"

\* C26: when a bulk run starts, every eligible record, of every batch, is in progress
\* before a lookup of the run has returned (one lookup has been sent, none was applied),
\* and every other record is as it was.
C26_AllMarkedAtStart ==
    BulkStarted =>
        /\ Len(clients) = Len(hist.pre)
        /\ \A k \in 1..Len(clients) :
              clients[k] = IF NeedsCity(hist.pre[k])
                           THEN [hist.pre[k] EXCEPT !.cityStatus = "finding"]
                           ELSE hist.pre[k]
        /\ Len(run.calls) = 1
        /\ run.returns = 0

\* a bulk run of two batches has started: the records of the first batch and the record
\* that the second batch will take are all in progress, and one lookup has been sent
C26_Witness ==
    /\ BulkStarted
    /\ Len(run.clientsToFind) > BATCH_SIZE
    /\ \A k \in 1..Len(clients) : clients[k].cityStatus = "finding"
    /\ clients[Len(clients)].id = run.clientsToFind[BATCH_SIZE + 1].id
    /\ Len(run.calls) = 1

\* the eligible records of the run at the zero-based positions from lo up to hi - 1
Positions(lo, hi) == [p \in 1..(hi - lo) |-> run.clientsToFind[lo + p].id]

\* C27: the batch with index k holds the eligible records at the positions k*B up to
\* min((k+1)*B, N) - 1, which are between one and B records; the batches are sent and
\* applied one at a time in increasing k, and a run that completes has covered every
\* position.
C27_BatchPartition ==
    AfterBatch =>
        LET k == run.returns - 1
            N == Len(run.clientsToFind)
            hi == IF (k + 1) * BATCH_SIZE < N THEN (k + 1) * BATCH_SIZE ELSE N
        IN  /\ k >= 0
            /\ hist.batch = Positions(k * BATCH_SIZE, hi)
            /\ Len(hist.batch) >= 1
            /\ Len(hist.batch) <= BATCH_SIZE
            /\ run.i = k * BATCH_SIZE
            /\ Len(run.calls) = run.returns
            /\ run.outcome = "completed" => hi = N

\* the second batch of a run over six records has returned: it holds the sixth alone
C27_Witness ==
    /\ AfterBatch
    /\ run.returns = 2
    /\ Len(run.clientsToFind) = BATCH_SIZE + 1
    /\ hist.batch = <<run.clientsToFind[BATCH_SIZE + 1].id>>

\* C28: when the outcome map of a batch has been applied, every record of that batch has
\* a terminal status: found, not_found or error.
C28_BatchTerminal ==
    AfterBatch =>
        \A k \in 1..Len(clients) :
            clients[k].id \in Range(hist.batch) =>
                clients[k].cityStatus \in {"found", "not_found", "error"}

\* a batch has returned with a record missing from the response: that record and the
\* others of the batch have a terminal status
C28_Witness ==
    /\ AfterBatch
    /\ hist.upstream.kind = "array"
    /\ Len(hist.batch) > 1
    /\ \E id \in Range(hist.batch) : MapGet(hist.resultMap, id) = "Error: No result from AI"
    /\ \A id \in Range(hist.batch) : \E k \in 1..Len(clients) : clients[k].id = id

\* C30: a bulk run with no eligible record does nothing: no lookup is sent and the working
\* set, the stored copy, the rate-limit history, the message and the run flag stay as
\* they are.
C30_NoEligibleNoop ==
    [][hist'.op = "FindAllNothing" =>
          UNCHANGED <<clients, storage, rateLimitHistory, rateLimitMessage, isFindingAll,
                      showDailyLimitWarning, run, manual, now>>]_vars

\* the bulk run was asked for when every record had a city: nothing is in progress and the
\* lookups sent are those of the run before
C30_Witness ==
    /\ hist.op = "FindAllNothing"
    /\ Len(clients) > 0
    /\ \A k \in 1..Len(clients) : clients[k].cityStatus = "found"
    /\ clients = hist.pre
    /\ ~isFindingAll
    /\ run.pc = "idle"
    /\ Len(run.calls) = run.returns

\* a bulk run is under way
Running == run.outcome = "running"

\* the run has ended, completed or stopped on a fatal outcome, and the run flag is down
Ended == run.outcome \in {"completed", "stopped"} /\ ~isFindingAll

\* C29: every bulk run ends, completed or stopped on a fatal outcome, with the run flag
\* cleared, when every lookup returns and every timer fires; a run whose last batch has
\* returned without a fatal outcome is completed.
C29_RunTerminates ==
    /\ Running ~> Ended
    /\ [](AfterBatch /\ hist.status # "STOP"
              /\ run.returns * BATCH_SIZE >= Len(run.clientsToFind)
            => run.outcome = "completed" /\ ~isFindingAll)

\* a run of two batches has completed after its pacing pause, with the run flag cleared
C29_Witness ==
    /\ AfterBatch
    /\ run.returns = 2
    /\ run.outcome = "completed"
    /\ ~isFindingAll
    /\ now >= run.due
    /\ run.due > 0

\* the step just taken applied the outcome map of a lookup, of a bulk run or a manual one
OutcomeApplied == hist.op \in {"BatchReturn", "FindCityReturn"}

\* the entries of an outcome map that were applied: those before its first fatal value
AppliedEntries(resultMap) ==
    {k \in 1..Len(resultMap) :
        \A j \in 1..k : resultMap[j].v \notin {"Invalid API Key", "Rate Limit Exceeded"}}

\* an applied entry of the outcome map is a city or the not-found text
SuccessApplied(resultMap) ==
    \E k \in AppliedEntries(resultMap) : resultMap[k].v \notin ServiceErrors

\* C31: within one life of the page the rate-limit history changes in two ways only: a
\* RateLimited classification appends the time of the step, and only a step that applied
\* a Found or NotFound outcome empties it; outcome maps of service errors, invalid-key
\* outcomes and every other step, the start and the end of a run among them, leave it as
\* it was.
C31_HistoryChanges ==
    hist.op \notin {"init", "Reload"} =>
        LET before == hist.was.rateLimitHistory
            bases == {before} \cup
                     (IF OutcomeApplied /\ SuccessApplied(hist.resultMap) THEN {<<>>} ELSE {})
        IN  IF OutcomeApplied /\ FirstFatal(hist.resultMap) = "Rate Limit Exceeded"
            THEN \E base \in bases : rateLimitHistory = Append(base, now)
            ELSE rateLimitHistory \in bases

\* the record has been enriched: its status is not idle or it has a city
Enriched(c) == c.cityStatus # "idle" \/ c.city # ""

\* the identity keys of the records of the working set, in its order
KeysOf(cl) == Array([k \in 1..Len(cl) |-> getClientUniqueKey(cl[k])])

\* C32: whenever the application is configured and loaded and the working set is not
\* empty, the persisted mapping has an entry for an identity key if and only if a record
\* with that key is enriched (status other than idle, or a city), and the entry is the
\* city and status of the last such record of the working set; a record that is idle
\* without a city gives no entry.
C32_CacheProjection ==
    (isConfigured(Cur) /\ ~isLoading /\ Len(clients) > 0) =>
        LET keyOf == KeysOf(clients)
            enriched == {k \in 1..Len(clients) : Enriched(clients[k])}
            EnrichedWith(key) == {k \in enriched : keyOf[k] = key}
        IN  /\ \A k \in 1..Len(clients) :
                  (keyOf[k] \in DOMAIN storage.clients) <=> EnrichedWith(keyOf[k]) # {}
            /\ \A key \in DOMAIN storage.clients :
                  /\ EnrichedWith(key) # {}
                  /\ LET last == CHOOSE k \in EnrichedWith(key) :
                                     \A j \in EnrichedWith(key) : j <= k
                     IN  storage.clients[key] =
                             [city |-> clients[last].city,
                              cityStatus |-> clients[last].cityStatus]

\* two records share a key and both are enriched, the first by an edit after the lookup of
\* the last: the entry is that of the last; a record never enriched has no entry
C32_Witness ==
    /\ hist.op = "CityChange"
    /\ Len(clients) = NumRows
    /\ getClientUniqueKey(clients[1]) = getClientUniqueKey(clients[NumRows])
    /\ clients[1].city = "Oslo"
    /\ clients[NumRows].city = "Paris"
    /\ storage.clients[getClientUniqueKey(clients[1])].city = "Paris"
    /\ ~Enriched(clients[2])
    /\ getClientUniqueKey(clients[2]) \notin DOMAIN storage.clients

\* the step just taken derived the identity key of a record
KeyReturned == hist.op = "getClientUniqueKey"

\* a field value begins or ends with a blank
BlankAtStart(s) == s # <<>> /\ Head(s) = " "
BlankAtEnd(s) == s # <<>> /\ s[Len(s)] = " "

\* C33 as stated: the identity key of a record is lowercase(trim(firstName)), "|",
\* lowercase(trim(lastName)), "|", lowercase(trim(company)), each field trimmed on its
\* own, whatever blanks the field values begin or end with.
C33_Original ==
    KeyReturned =>
        hist.key = LowerSeq(TrimSeq(hist.client.firstName)) \o <<"|">>
                       \o LowerSeq(TrimSeq(hist.client.lastName)) \o <<"|">>
                       \o LowerSeq(TrimSeq(hist.client.company))

\* C33 (amended): the identity key of a record is the lower-cased text firstName, "|",
\* lastName, "|", company trimmed as a whole: the blanks at the start of firstName and at
\* the end of company are removed, the blanks at the end of firstName, around lastName
\* and at the start of company are kept; the key is the one of the per-field formula
\* exactly when there are no such inner blanks.
C33_Amended ==
    KeyReturned =>
        LET c == hist.client
            inner == BlankAtEnd(TrimLeft(c.firstName)) \/ BlankAtStart(c.lastName)
                         \/ BlankAtEnd(c.lastName) \/ BlankAtStart(TrimRight(c.company))
            perField == LowerSeq(TrimSeq(c.firstName)) \o <<"|">>
                            \o LowerSeq(TrimSeq(c.lastName)) \o <<"|">>
                            \o LowerSeq(TrimSeq(c.company))
        IN  /\ hist.key = LowerSeq(TrimLeft(c.firstName)) \o <<"|">> \o LowerSeq(c.lastName)
                              \o <<"|">> \o LowerSeq(TrimRight(c.company))
            /\ (hist.key = perField) <=> ~inner

\* the key of a record whose first name ends with a blank and whose company ends with one
\* has been derived: the first blank is in the key, the second is not
C33_Witness ==
    /\ KeyReturned
    /\ hist.client.firstName = <<"A", " ">>
    /\ hist.client.lastName = <<"b">>
    /\ hist.client.company = <<"A", " ">>
    /\ hist.key = <<"a", " ", "|", "b", "|", "a">>

\* the state record after the outcome map of the step just taken is applied once more, at
\* the same place of the handler, followed by the save effect
AppliedAgain ==
    SaveEffect(IF hist.op = "BatchReturn"
               THEN ApplyBatch(Cur, run.clientsToFind, run.i, hist.upstream, now).S
               ELSE processApiResult(Cur, hist.resultMap, now).S)

\* C34: applying the outcome map of a lookup a second time, directly after the first,
\* leaves the working set and the persisted cache as the first application left them.
C34_IdempotentMerge ==
    OutcomeApplied =>
        /\ AppliedAgain.clients = clients
        /\ AppliedAgain.storage = storage

\* the map of a batch with a found and a not-found outcome has been applied and saved
C34_Witness ==
    /\ AfterBatch
    /\ hist.status = "CONTINUE"
    /\ DOMAIN storage.clients # {}
    /\ \E k \in 1..Len(clients) :
          clients[k].id \in Range(hist.batch) /\ clients[k].cityStatus = "found"
    /\ \E k \in 1..Len(clients) :
          clients[k].id \in Range(hist.batch) /\ clients[k].cityStatus = "not_found"

\* the outcome the map of the step just taken has for the record with this id is an error
\* (a service error, the rate-limit text) or not found
FailedOutcome(id) ==
    /\ MapHas(hist.resultMap, id)
    /\ \/ MapGet(hist.resultMap, id) \in ServiceErrors \cup {"Rate Limit Exceeded"}
       \/ ToLowerCase(MapGet(hist.resultMap, id)) = "not found"

\* the ids of the records a fatal stop of the bulk run left without a lookup
LeftUnprocessed ==
    IF AfterBatch /\ hist.status = "STOP"
    THEN Range(IdsOf(Slice(run.clientsToFind, run.i, Len(run.clientsToFind))))
    ELSE {}

\* C35: a record whose lookup ended in an error (a service error, a rate limit, or not
\* processed after a fatal stop) or in not found is eligible afterwards, and the next
\* bulk run selects every record that is eligible.
C35_RetryEligible ==
    /\ OutcomeApplied =>
          \A k \in 1..Len(clients) :
              (FailedOutcome(clients[k].id) \/ clients[k].id \in LeftUnprocessed)
                  => NeedsCity(clients[k])
    /\ hist.op = "FindAllStart" =>
          \A k \in 1..Len(hist.pre) :
              hist.pre[k].cityStatus \in {"error", "not_found"}
                  => hist.pre[k].id \in Range(Selected)

\* no lookup is at the gateway and no bulk run is under way
NothingInFlight == run.pc = "idle" /\ manual = <<>> /\ ~isFindingAll

\* C36: whenever no bulk run and no manual lookup is in flight, also directly after the
\* load and merge that follow a reload of the page during a run, no record of the working
\* set is in progress.
C36_NoStaleInProgress ==
    NothingInFlight => \A k \in 1..Len(clients) : clients[k].cityStatus # "finding"

\* C37: applying the outcome map of a lookup changes no record other than those of the
\* batch that was sent (and, when a bulk run stops on a rate limit, those the stop leaves
\* unprocessed), whatever ids the response holds; in particular a record with status found
\* that was not selected stays as it was.
C37_OnlyBatchChanged ==
    (OutcomeApplied /\ FirstFatal(hist.resultMap) # "Invalid API Key") =>
        /\ Len(clients) = Len(hist.pre)
        /\ \A k \in 1..Len(clients) :
              clients[k].id \notin Range(hist.batch) \cup LeftUnprocessed
                  => clients[k] = hist.pre[k]

\* the outcome map applied last belongs to a lookup that began before a settings reset
\* discarded the working set it was sent for
AppliedAfterReset == OutcomeApplied /\ hist.stale

\* C38: an outcome is applied only to the record that was sent for it: when the settings
\* are reset and a working set is loaded again while a bulk run or a manual lookup is
\* still in flight, the outcomes of that earlier lookup, and the not-processed marking of
\* its stop, change no record of the working set loaded since.
C38_NoStaleOutcome ==
    (AppliedAfterReset /\ ~CallsReset(hist.resultMap)) => clients = hist.pre

====
